---- MODULE Spec2Model ----
(***************************************************************************)
(* The short links manager (packages/shortlinks-manager/src/manager.ts)    *)
(* with its identifier generator, an in-memory backend and a list of       *)
(* in-memory cache tiers.  Identifiers and URLs are strings; time is       *)
(* counted in days.  One action is one step of a call of a manager         *)
(* operation, from one await to the next, or one step of the environment.  *)
(***************************************************************************)
EXTENDS Integers, Sequences, FiniteSets, TLC

VARIABLES
    shortIdLength,  \* the manager's current identifier length (closure variable)
    notified,       \* the values passed to onShortIdLengthUpdated, in order
    links,          \* the backend map: shortId -> [targetUrl, lastAccessedAt]
    caches,         \* the cache tiers in registration order, each shortId -> targetUrl
    caches_init,    \* of every tier, whether it defines init
    now,            \* the clock, in days
    last,           \* the operation that ended at the last step, with its calls and result
    returned,       \* the shortIds returned by createShortLink, in order (SpecCreate)
    options,        \* the options property passed to createManager (SpecManager)
    stmt_getShortIdsExist,  \* the D1 backend's prepared statement of checkShortIdsExist (SpecD1)
    backend_init,   \* whether the backend passed to createManager defines init (SpecInit)
    initialised,    \* the field initialised of a LinksManager (SpecLegacy)
    gen,            \* a call of generateUniqueShortIds in progress (SpecGen)
    callers         \* the calls in progress of every caller, each at an await

vars == <<shortIdLength, notified, links, caches, caches_init, now, last, returned, options,
          stmt_getShortIdsExist, backend_init, initialised, gen, callers>>

----------------------------------------------------------------------------
(* Bounds of the model *)

\* The number of characters of ALLOWED_CHARS in use (62 in the source).
AlphabetSize == 2
\* The number of candidates asked of the generator per round (50 in the source).
BatchCount == 2
\* The concurrent callers of createShortLink, each making one call under
\* SpecSteps, and the longest identifiers generated there: the last batch of
\* a call follows two escalations of its own and three of the other call.
Callers == 2
StepLen == 6
\* The longest identifiers asked of generateUniqueShortIds under SpecGen.
GenLen == 2
\* The longest identifier that the other clients store, and the most
\* records the backend holds when they store one, under Spec.  A call of the
\* manager that is made runs to its end, whatever the length and the backend
\* become.
MaxLen == 1
MaxLinks == 2
\* The same under SpecCreate, which leaves room for three saturated lengths:
\* the most records the backend holds when a createShortLink is called, and
\* the longest shortIdLength at which one is called there.
DeepLen == 3
DeepLinks == 3
StartLen == 2
\* The last day of the clock.
MaxTime == 1
\* The largest maxAge passed to cleanUnusedLinks.
MaxAge == 1
\* The most cache tiers a manager is configured with.
MaxCaches == 2
\* The most entries one cache tier holds when another client sets one.
MaxCached == 2

\* The shortIdLength the manager is constructed with.
InitialLength == 1

(* Program constants *)

\* for (let i = 0; i < 10; i++), of the earlier manager
LegacyAttempts == 10

\* The attempts of the earlier manager.
MaxAttempts_ten == LegacyAttempts
\* for (let i = 0; i < 3; i++)
MaxAttempts == 3

\* loop < count * 100
DrawBudgetFactor == 100

----------------------------------------------------------------------------
(* Values *)

\* null / undefined
Null == "null"

\* An optional property that is not defined: of the argument of
\* createManager, of the backend or of a cache tier.
Undefined == "undefined"

\* JavaScript truthiness of a string | null | undefined value: !v
Falsy(v) == v = Null \/ v = ""

ALLOWED_CHARS ==
    <<"0", "1", "2", "3", "4", "5", "6", "7", "8", "9",
      "a", "b", "c", "d", "e", "f", "g", "h", "i", "j", "k", "l", "m",
      "n", "o", "p", "q", "r", "s", "t", "u", "v", "w", "x", "y", "z",
      "A", "B", "C", "D", "E", "F", "G", "H", "I", "J", "K", "L", "M",
      "N", "O", "P", "Q", "R", "S", "T", "U", "V", "W", "X", "Y", "Z">>

Alphabet == {ALLOWED_CHARS[i] : i \in 1..AlphabetSize}

\* The target URLs given to createShortLink.
Urls == {"", "https://poto.nz", "https://example.com/test"}

\* Those stored under SpecManager and SpecRead: the empty string and a URL.
StoredUrls == {"", "https://poto.nz"}

Range(s) == {s[i] : i \in 1..Len(s)}

Min(S) == CHOOSE x \in S : \A y \in S : x <= y

----------------------------------------------------------------------------
(* The identifier generator *)

RECURSIVE generateRandomShortId(_)
\* The strings generateRandomShortId(length) can return.
generateRandomShortId(length) ==
    IF length <= 0 THEN {""}
    ELSE {result \o c : result \in generateRandomShortId(length - 1), c \in Alphabet}

RECURSIVE InsertionOrders(_, _)
\* The arrays Array.from(ids) of a Set that holds k distinct members of S,
\* in insertion order.
InsertionOrders(S, k) ==
    IF k = 0 THEN {<<>>}
    ELSE UNION {{Append(p, x) : x \in S \ Range(p)} : p \in InsertionOrders(S, k - 1)}

\* The arrays generateUniqueShortIds(count, length) can return: the loop ends
\* with count distinct ids, or with fewer once count * 100 draws are spent.
generateUniqueShortIds(count, length) ==
    LET space == generateRandomShortId(length)
        budget == count * DrawBudgetFactor
        sizes == {k \in 0..count :
                    /\ k <= Cardinality(space)
                    /\ k <= budget
                    /\ \/ k = count
                       \/ k < count /\ (budget > 0 => k > 0)}
    IN  UNION {InsertionOrders(space, k) : k \in sizes}

\* Every identifier of length 1..maxLen.
IdsUpTo(maxLen) == UNION {generateRandomShortId(n) : n \in 1..maxLen}

\* The identifiers in use under Spec and under SpecCreate.
Ids == IdsUpTo(MaxLen)
DeepIds == IdsUpTo(DeepLen)

----------------------------------------------------------------------------
(* The backend: a map shortId -> {targetUrl, lastAccessedAt} *)

Has(map, shortId) == shortId \in DOMAIN map

backend_getTargetUrl(map, shortId) ==
    IF Has(map, shortId) THEN map[shortId].targetUrl ELSE Null

\* The map after createShortLink(shortId, targetUrl) at time t; the call
\* throws when the map has shortId.
backend_createShortLinkThrows(map, shortId) == Has(map, shortId)

\* map.set(targetUrl, ...): the record is filed under the wrong key.
backend_createShortLink_keyedByUrl(map, shortId, targetUrl, t) ==
    [id \in DOMAIN map \cup {targetUrl} |->
        IF id = targetUrl THEN [targetUrl |-> targetUrl, lastAccessedAt |-> t]
        ELSE map[id]]

backend_createShortLink(map, shortId, targetUrl, t) ==
    [id \in DOMAIN map \cup {shortId} |->
        IF id = shortId THEN [targetUrl |-> targetUrl, lastAccessedAt |-> t]
        ELSE map[id]]

backend_checkShortIdsExist(map, shortIds) ==
    SelectSeq(shortIds, LAMBDA id : Has(map, id))

\* map.set(shortId, {lastAccessedAt: new Date()}): the record is replaced
\* by one without its targetUrl.
backend_updateShortLinkLastAccessTime_dropsUrl(map, shortId, t) ==
    IF Has(map, shortId)
    THEN [map EXCEPT ![shortId] = [targetUrl |-> Null, lastAccessedAt |-> t]]
    ELSE map

backend_updateShortLinkLastAccessTime(map, shortId, t) ==
    IF Has(map, shortId)
    THEN [map EXCEPT ![shortId].lastAccessedAt = t]
    ELSE map

backend_cleanUnusedLinks(map, maxAge, t) ==
    LET cutoffDate == t - maxAge
        kept == {id \in DOMAIN map : ~(map[id].lastAccessedAt < cutoffDate)}
    IN  [id \in kept |-> map[id]]

----------------------------------------------------------------------------
(* A cache tier: a map shortId -> targetUrl *)

cache_get(cache, shortId) ==
    IF shortId \in DOMAIN cache /\ ~Falsy(cache[shortId])
    THEN cache[shortId] ELSE Null

cache_set(cache, shortId, targetUrl) ==
    [id \in DOMAIN cache \cup {shortId} |->
        IF id = shortId THEN targetUrl ELSE cache[id]]

cache_delete(cache, shortId) ==
    [id \in DOMAIN cache \ {shortId} |-> cache[id]]

----------------------------------------------------------------------------
(* The manager returned by createManager, await by await.  A call of        *)
(* createShortLink or of getTargetUrl runs from one await to the next in    *)
(* one step: the call it makes on the backend, on a cache tier or on the    *)
(* callback takes effect when it is made (the backend and the tiers of the  *)
(* tests are synchronous), and the operation goes on when it is resumed.    *)
(* Other calls and the environment run in between.                          *)

Call(name, n) == [call |-> name, n |-> n]

\* A call that rejected.
Failed(c) == [call |-> c.call, n |-> c.n, failed |-> TRUE]

\* The calls that are made on the backend or on a cache tier.
BackendOrCache(c) == c.call # "onShortIdLengthUpdated"

\* The last free candidate instead of the first.
find_last(listToTest, existed) ==
    LET free == {i \in 1..Len(listToTest) : listToTest[i] \notin Range(existed)}
    IN  IF free = {} THEN Null
        ELSE listToTest[CHOOSE i \in free : \A j \in free : j <= i]

\* listToTest.find(id => !existed.includes(id))
find(listToTest, existed) ==
    LET free == {i \in 1..Len(listToTest) : listToTest[i] \notin Range(existed)}
    IN  IF free = {} THEN Null ELSE listToTest[Min(free)]

\* generateUniqueShortIds(50, shortIdLength)
listsToTest(length) == generateUniqueShortIds(BatchCount, length)

\* The check is left out, as in the manager's earlier versions.
exhausted_unchecked(shortId) == FALSE

\* if (!shortId) throw new Error("Unable to create a shortlink, potentially ran out")
exhausted(shortId) == Falsy(shortId)

\* The values passed to onShortIdLengthUpdated among calls, in order.
Notifications(calls) ==
    LET ups == SelectSeq(calls, LAMBDA c : c.call = "onShortIdLengthUpdated")
    IN  [k \in 1..Len(ups) |-> ups[k].n]

\* The record of a completed operation: its arguments, its result, the
\* calls it made and the rounds of its loop (of a createShortLink: the
\* batches and the backend's answers; of a getTargetUrl: the values read);
\* at is the state the operation was called in, kept while nothing else ran
\* between its call and its end.
Op(op, shortId, targetUrl, result, threw, calls, rounds) ==
    [op |-> op, shortId |-> shortId, targetUrl |-> targetUrl, result |-> result,
     threw |-> threw, calls |-> calls, rounds |-> rounds,
     at |-> [alone |-> FALSE, links |-> <<>>, caches |-> <<>>, now |-> 0,
             shortIdLength |-> 0,
             prior |-> [op |-> "environment", result |-> Null, targetUrl |-> Null,
                        threw |-> FALSE, alone |-> FALSE]]]

\* A step of the environment leaves no record of a manager operation.
Environment == Op("environment", Null, Null, Null, FALSE, <<>>, <<>>)

\* A step of an operation that has not ended.
Pending == Op("await", Null, Null, Null, FALSE, <<>>, <<>>)

\* The state of an operation that something else ran beside.
NoSnapshot == Environment.at

\* The state an operation is called in, with the operation that ended at
\* the step before, if one did.
Snapshot ==
    [alone |-> TRUE, links |-> links, caches |-> caches, now |-> now,
     shortIdLength |-> shortIdLength,
     prior |-> [op |-> last.op, result |-> last.result, targetUrl |-> last.targetUrl,
                threw |-> last.threw, alone |-> last.at.alone]]

\* A caller that has no call in progress.  A call in progress has its
\* operation op, the await it stands at (pc), its arguments and local
\* variables, the value its awaited call resolves to, the calls made and the
\* rounds of its loop, and the call that rejects, if one does (fault).
Idle == [op |-> "idle", pc |-> "idle", targetUrl |-> Null, shortId |-> "", i |-> 0,
         awaited |-> Null, calls |-> <<>>, rounds |-> <<>>, fault |-> 0,
         keep |-> FALSE, at |-> NoSnapshot,
         batchLength |-> 0, uniqueShortId |-> Null, checks |-> 0, escalations |-> 0,
         newLength |-> 0]

\* What a call in progress runs on: its own record and the state it shares.
Machine(r) ==
    [r |-> r, links |-> links, caches |-> caches, inits |-> caches_init,
     len |-> shortIdLength, notified |-> notified, now |-> now]

\* A try / catch around the call: the fault is swallowed and the operation
\* goes on as if the call had resolved.
invoke_swallowed(m, name, n, effect) ==
    IF m.r.fault = Len(SelectSeq(m.r.calls, BackendOrCache)) + 1
    THEN [m EXCEPT !.r.pc = name, !.r.calls = Append(@, Failed(Call(name, n)))]
    ELSE [effect EXCEPT !.r.pc = name, !.r.calls = Append(@, Call(name, n))]

\* await <call on the backend or on a tier>: the call takes effect and the
\* operation waits for it, or the call rejects and the operation ends with
\* the fault, no try / catch being around any await.
invoke(m, name, n, effect) ==
    IF m.r.fault = Len(SelectSeq(m.r.calls, BackendOrCache)) + 1
    THEN [m EXCEPT !.r.pc = "throw", !.r.calls = Append(@, Failed(Call(name, n)))]
    ELSE [effect EXCEPT !.r.pc = name, !.r.calls = Append(@, Call(name, n))]

(* createShortLink *)

\* After the loop: if (!shortId) throw ...; await backend.createShortLink(
\* shortId, targetUrl), which throws when the backend holds shortId.
create_afterLoop(m) ==
    IF exhausted(m.r.shortId) THEN [m EXCEPT !.r.pc = "throw"]
    ELSE IF backend_createShortLinkThrows(m.links, m.r.shortId)
    THEN [m EXCEPT !.r.pc = "throw",
                   !.r.calls = Append(@, Failed(Call("backend.createShortLink", 0)))]
    ELSE invoke(m, "backend.createShortLink", 0,
                [m EXCEPT !.links = backend_createShortLink(@, m.r.shortId,
                                                            m.r.targetUrl, m.now)])

\* onShortIdLengthUpdated(shortIdLength++): the callback gets the old length.
create_escalate_staleLength(m) ==
    [m EXCEPT !.len = @ + 1,
              !.notified = Append(@, m.len),
              !.r.pc = "onShortIdLengthUpdated",
              !.r.calls = Append(@, Call("onShortIdLengthUpdated", m.len))]

\* The callback is called twice after a saturated batch.
create_escalate_notifiesTwice(m) ==
    [m EXCEPT !.len = @ + 1,
              !.notified = @ \o <<m.len + 1, m.len + 1>>,
              !.r.pc = "onShortIdLengthUpdated",
              !.r.calls = @ \o <<Call("onShortIdLengthUpdated", m.len + 1),
                                 Call("onShortIdLengthUpdated", m.len + 1)>>]

\* shortIdLength += 2: a saturated batch skips a length.
create_escalate_skipsLength(m) ==
    [m EXCEPT !.len = @ + 2,
              !.notified = Append(@, m.len + 2),
              !.r.pc = "onShortIdLengthUpdated",
              !.r.calls = Append(@, Call("onShortIdLengthUpdated", m.len + 2))]

\* ++shortIdLength; await onShortIdLengthUpdated(shortIdLength)
create_escalate(m) ==
    [m EXCEPT !.len = @ + 1,
              !.notified = Append(@, m.len + 1),
              !.r.pc = "onShortIdLengthUpdated",
              !.r.calls = Append(@, Call("onShortIdLengthUpdated", m.len + 1))]

\* ++shortIdLength outside the if: the length grows on a found candidate too.
create_checked_growsOnFound(m) ==
    LET round == m.r.rounds[Len(m.r.rounds)]
        uniqueShortId == find(round.listToTest, round.existed)
    IN  IF Falsy(uniqueShortId) THEN create_escalate(m)
        ELSE create_afterLoop([m EXCEPT !.r.shortId = uniqueShortId, !.len = @ + 1])

\* await backend.checkShortIdsExist(listToTest) has resolved to existed:
\* const uniqueShortId = listToTest.find(id => !existed.includes(id));
\* if (!uniqueShortId) { escalate } else { shortId = uniqueShortId; break; }
create_checked(m) ==
    LET round == m.r.rounds[Len(m.r.rounds)]
        uniqueShortId == find(round.listToTest, round.existed)
    IN  IF Falsy(uniqueShortId) THEN create_escalate(m)
        ELSE create_afterLoop([m EXCEPT !.r.shortId = uniqueShortId])

\* The head of the for loop: while i < 3 a batch is generated at the
\* manager's current length and backend.checkShortIdsExist(listToTest) is
\* called, one outcome for every batch the generator can return; then the
\* loop is left.
create_loop(m) ==
    IF m.r.i < MaxAttempts
    THEN {invoke(m, "backend.checkShortIdsExist", Len(listToTest),
                 [m EXCEPT !.r.rounds = Append(@,
                       [length |-> m.len, listToTest |-> listToTest,
                        existed |-> backend_checkShortIdsExist(m.links, listToTest)])]) :
               listToTest \in listsToTest(m.len)}
    ELSE {create_afterLoop(m)}

(* getTargetUrl *)

\* A value that a getTargetUrl read from a tier or from the backend; the
\* reads of a call are kept in its rounds.
Read(name, n, value) == [call |-> name, n |-> n, value |-> value]

\* return targetUrl
get_return(m) == [m EXCEPT !.r.pc = "return"]

\* The second loop from tier i on: await cache.set(shortId, targetUrl).
get_sets(m, i) ==
    IF i <= Len(m.caches)
    THEN invoke([m EXCEPT !.r.i = i], "cache.set", i,
                [m EXCEPT !.r.i = i,
                          !.caches[i] = cache_set(@, m.r.shortId, m.r.targetUrl)])
    ELSE get_return(m)

\* The cache writes placed outside the if (targetUrl): a miss is written
\* to the tiers too.
get_found_cachesMisses(m) ==
    IF ~Falsy(m.r.targetUrl)
    THEN invoke(m, "backend.updateShortLinkLastAccessTime", 0,
                [m EXCEPT !.links = backend_updateShortLinkLastAccessTime(
                                        @, m.r.shortId, m.now)])
    ELSE get_sets(m, 1)

\* The access-time update placed before the if (targetUrl): the backend is
\* told of a read that found nothing.
get_found_alwaysUpdates(m) ==
    invoke(m, "backend.updateShortLinkLastAccessTime", 0,
           [m EXCEPT !.links = backend_updateShortLinkLastAccessTime(
                                   @, m.r.shortId, m.now)])

\* if (targetUrl) { await backend.updateShortLinkLastAccessTime(shortId); ... }
\* return targetUrl
get_found(m) ==
    IF ~Falsy(m.r.targetUrl)
    THEN invoke(m, "backend.updateShortLinkLastAccessTime", 0,
                [m EXCEPT !.links = backend_updateShortLinkLastAccessTime(
                                        @, m.r.shortId, m.now)])
    ELSE get_return(m)

\* After the first loop: if (!targetUrl) targetUrl = await
\* backend.getTargetUrl(shortId)
get_afterLoop(m) ==
    IF Falsy(m.r.targetUrl)
    THEN invoke(m, "backend.getTargetUrl", 0,
                [m EXCEPT !.r.awaited = backend_getTargetUrl(m.links, m.r.shortId),
                          !.r.rounds = Append(@, Read("backend.getTargetUrl", 0,
                                        backend_getTargetUrl(m.links, m.r.shortId)))])
    ELSE get_found(m)

RECURSIVE get_loop(_, _)

\* The query without its if (!targetUrl): every tier is queried and the last
\* answer stands.
get_asked_everyTier(m, i) ==
    invoke(m, "cache.get", i,
           [m EXCEPT !.r.awaited = cache_get(m.caches[i], m.r.shortId),
                     !.r.rounds = Append(@, Read("cache.get", i,
                                    cache_get(m.caches[i], m.r.shortId)))])

\* if (!targetUrl) targetUrl = await cache.get(shortId) on the tier i; a
\* tier that is not asked is passed and the loop goes on.
get_asked(m, i) ==
    IF Falsy(m.r.targetUrl)
    THEN invoke(m, "cache.get", i,
                [m EXCEPT !.r.awaited = cache_get(m.caches[i], m.r.shortId),
                          !.r.rounds = Append(@, Read("cache.get", i,
                                        cache_get(m.caches[i], m.r.shortId)))])
    ELSE get_loop(m, i + 1)

\* The first loop from tier i on: for (const cache of caches) { await
\* cache.init?.(); ...  The operation waits at this await on every tier: a
\* tier that defines init is called, and on a tier that defines none the
\* await of undefined yields without a call.
get_loop(m, i) ==
    IF i <= Len(m.caches)
    THEN IF m.inits[i] # Undefined
         THEN invoke([m EXCEPT !.r.i = i], "cache.init", i, [m EXCEPT !.r.i = i])
         ELSE [m EXCEPT !.r.i = i, !.r.pc = "cache.init"]
    ELSE get_afterLoop(m)

\* await cache.init?.() has resolved.
get_inited(m) == get_asked(m, m.r.i)

\* The call resumed from the await it stands at.
get_resumed(m) ==
    CASE m.r.pc = "cache.init" -> get_inited(m)
      [] m.r.pc = "cache.get" ->
            get_loop([m EXCEPT !.r.targetUrl = m.r.awaited], m.r.i + 1)
      [] m.r.pc = "backend.getTargetUrl" ->
            get_found([m EXCEPT !.r.targetUrl = m.r.awaited])
      [] m.r.pc = "backend.updateShortLinkLastAccessTime" -> get_sets(m, 1)
      [] m.r.pc = "cache.set" -> get_sets(m, m.r.i + 1)
      [] OTHER -> m

RECURSIVE get_ended(_)
\* The call resumed until it ends, nothing else running in between.
get_ended(m) ==
    IF m.r.pc \in {"return", "throw"} THEN m ELSE get_ended(get_resumed(m))

\* What getTargetUrl(shortId) returns when it is called on the tiers cs,
\* which define init as inits says, and on the map at the time t, and
\* nothing else runs before it ends.
getTargetUrl_alone(cs, inits, map, shortId, t) ==
    get_ended(get_loop([r |-> [Idle EXCEPT !.op = "getTargetUrl", !.shortId = shortId],
                        links |-> map, caches |-> cs, inits |-> inits, len |-> 0,
                        notified |-> <<>>,
                        now |-> t], 1)).r.targetUrl

----------------------------------------------------------------------------
(* The state machine *)

\* private stmt_getShortIdsExist: D1PreparedStatement | null = null
NotPrepared == [prepared |-> FALSE, placeholders |-> 0]

\* generateUniqueShortIds before its first call.
NotCalled == [pc |-> "idle", count |-> 0, length |-> 0, ids |-> <<>>, loop |-> 0]

\* The options a caller passes to createManager, as the tests do:
\* options: {shouldUpdateLastAccessOnGet: true | false}, or none.
Options == {[shouldUpdateLastAccessOnGet |-> v] : v \in {"true", "false", Undefined}}
NoOptions == [shouldUpdateLastAccessOnGet |-> Undefined]

\* The calls of createManager: await backend.init?.(), and nothing else.
createManager_initsTwice(init) ==
    IF init = Undefined THEN <<>> ELSE <<Call("backend.init", 0), Call("backend.init", 0)>>
createManager(init) ==
    IF init = Undefined THEN <<>> ELSE <<Call("backend.init", 0)>>

\* await createManager({backend, caches, shortIdLength, onShortIdLengthUpdated}),
\* with the backend of the tests, which defines no init, and with tiers that
\* define init (the InMemoryCache of cache.test.ts) or do not (ICache.init
\* is optional; the InMemoryCache of the other test file has none).
Init ==
    /\ shortIdLength = InitialLength
    /\ notified = <<>>
    /\ links = <<>>
    /\ caches \in {[i \in 1..n |-> <<>>] : n \in 0..MaxCaches}
    /\ caches_init \in [1..Len(caches) -> {"defined", Undefined}]
    /\ now = 0
    /\ backend_init = Undefined
    /\ initialised = FALSE
    /\ last = Op("createManager", Null, Null, Null, FALSE, createManager(backend_init), <<>>)
    /\ returned = <<>>
    /\ options = NoOptions
    /\ stmt_getShortIdsExist = NotPrepared
    /\ gen = NotCalled
    /\ callers = [c \in 1..Callers |-> Idle]

\* The records of the map filed under an identifier.
Records(map) == {id \in DOMAIN map : id # ""}

\* A call in progress that something else runs beside.
Disturbed(r) == IF r.pc = "idle" THEN r ELSE [r EXCEPT !.at = NoSnapshot]

\* The callers after a step that is none of theirs.
Beside == [d \in 1..Callers |-> Disturbed(callers[d])]

\* The record of the operation that the call r has ended as; the shortId
\* of a createShortLink is the value of its variable shortId at the end.
Completed(r) ==
    LET threw == r.pc = "throw"
        create == r.op = "createShortLink"
    IN  [Op(r.op,
            r.shortId,
            IF create THEN r.targetUrl ELSE Null,
            IF threw THEN Null ELSE IF create THEN r.shortId ELSE r.targetUrl,
            threw, r.calls, r.rounds) EXCEPT !.at = r.at]

\* The step of the caller c that leaves its call and the shared state as m
\* has them: the call waits at its next await, or it has ended and its
\* record is left in last.
Apply(c, m) ==
    LET ended == m.r.pc \in {"return", "throw"}
    IN  /\ links' = m.links
        /\ caches' = m.caches
        /\ shortIdLength' = m.len
        /\ notified' = m.notified
        /\ callers' = [Beside EXCEPT ![c] = IF ended THEN Idle ELSE m.r]
        /\ last' = IF ended THEN Completed(m.r) ELSE Pending
        /\ returned' = IF m.r.keep /\ m.r.pc = "return" /\ m.r.op = "createShortLink"
                       THEN Append(returned, m.r.shortId) ELSE returned
        /\ UNCHANGED <<now, options, caches_init, stmt_getShortIdsExist, backend_init, initialised, gen>>

\* manager.createShortLink(targetUrl) is called: let shortId = ""; the
\* first pass of the loop up to its await.  Calls are made while the
\* manager's length is at most maxLen and the backend holds at most
\* maxLinks records; a call that is made runs to its end whatever the
\* length and the backend become.
createShortLink(c, targetUrl, maxLen, maxLinks, keep, fault) ==
    /\ callers[c].pc = "idle"
    /\ shortIdLength <= maxLen
    /\ Cardinality(Records(links)) <= maxLinks
    /\ \E m \in create_loop(Machine([Idle EXCEPT
                !.op = "createShortLink", !.targetUrl = targetUrl,
                !.keep = keep, !.fault = fault,
                !.at = Snapshot])) :
            Apply(c, m)

\* manager.createShortLink(targetUrl), with room for three saturated lengths.
CreateShortLink(c, targetUrl) ==
    createShortLink(c, targetUrl, DeepLen, DeepLinks, FALSE, 0)

\* await backend.checkShortIdsExist(listToTest) resumes.
CreateChecked(c) ==
    /\ callers[c].op = "createShortLink"
    /\ callers[c].pc = "backend.checkShortIdsExist"
    /\ Apply(c, create_checked(Machine(callers[c])))

\* await onShortIdLengthUpdated(shortIdLength) resumes: i++, the next pass.
CreateNotified(c) ==
    /\ callers[c].op = "createShortLink"
    /\ callers[c].pc = "onShortIdLengthUpdated"
    /\ \E m \in create_loop(Machine([callers[c] EXCEPT !.i = @ + 1])) : Apply(c, m)

\* await backend.createShortLink(shortId, targetUrl) resumes: return shortId.
CreateCreated(c) ==
    /\ callers[c].op = "createShortLink"
    /\ callers[c].pc = "backend.createShortLink"
    /\ Apply(c, get_return(Machine(callers[c])))

\* manager.getTargetUrl(shortId) is called: let targetUrl = null; the first
\* loop up to its first await.
getTargetUrl(c, shortId, fault) ==
    /\ callers[c].pc = "idle"
    /\ Apply(c, get_loop(Machine([Idle EXCEPT
                !.op = "getTargetUrl", !.shortId = shortId, !.fault = fault,
                !.at = Snapshot]), 1))

GetTargetUrl(c, shortId) == getTargetUrl(c, shortId, 0)

\* await cache.init?.() resumes.
GetInited(c) ==
    /\ callers[c].op = "getTargetUrl"
    /\ callers[c].pc = "cache.init"
    /\ Apply(c, get_resumed(Machine(callers[c])))

\* targetUrl = await cache.get(shortId) resumes; the next tier.
GetGot(c) ==
    /\ callers[c].op = "getTargetUrl"
    /\ callers[c].pc = "cache.get"
    /\ Apply(c, get_resumed(Machine(callers[c])))

\* targetUrl = await backend.getTargetUrl(shortId) resumes.
GetRead(c) ==
    /\ callers[c].op = "getTargetUrl"
    /\ callers[c].pc = "backend.getTargetUrl"
    /\ Apply(c, get_resumed(Machine(callers[c])))

\* await backend.updateShortLinkLastAccessTime(shortId) resumes: the second loop.
GetTouched(c) ==
    /\ callers[c].op = "getTargetUrl"
    /\ callers[c].pc = "backend.updateShortLinkLastAccessTime"
    /\ Apply(c, get_resumed(Machine(callers[c])))

\* await cache.set(shortId, targetUrl) resumes: the next tier, or return.
GetSet(c) ==
    /\ callers[c].op = "getTargetUrl"
    /\ callers[c].pc = "cache.set"
    /\ Apply(c, get_resumed(Machine(callers[c])))

\* manager.updateShortLinkLastAccessTime(shortId)
UpdateShortLinkLastAccessTime(shortId) ==
    /\ links' = backend_updateShortLinkLastAccessTime(links, shortId, now)
    /\ last' = Op("updateShortLinkLastAccessTime", shortId, Null, Null, FALSE,
                  <<Call("backend.updateShortLinkLastAccessTime", 0)>>, <<>>)
    /\ callers' = Beside
    /\ UNCHANGED <<shortIdLength, notified, caches, now, returned, options, caches_init, stmt_getShortIdsExist, backend_init, initialised, gen>>

\* cleanUnusedLinks that also drops the pruned shortIds from every tier.
CleanUnusedLinks_invalidating(maxAge) ==
    /\ links' = backend_cleanUnusedLinks(links, maxAge, now)
    /\ caches' = [i \in 1..Len(caches) |->
                    [id \in DOMAIN caches[i] \ (DOMAIN links \ DOMAIN links') |-> caches[i][id]]]
    /\ last' = Op("cleanUnusedLinks", Null, Null, Null, FALSE,
                  <<Call("backend.cleanUnusedLinks", maxAge)>>, <<>>)
    /\ callers' = Beside
    /\ UNCHANGED <<shortIdLength, notified, now, returned, options, caches_init, stmt_getShortIdsExist, backend_init, initialised, gen>>

\* manager.cleanUnusedLinks(maxAge)
CleanUnusedLinks(maxAge) ==
    /\ links' = backend_cleanUnusedLinks(links, maxAge, now)
    /\ last' = Op("cleanUnusedLinks", Null, Null, Null, FALSE,
                  <<Call("backend.cleanUnusedLinks", maxAge)>>, <<>>)
    /\ callers' = Beside
    /\ UNCHANGED <<shortIdLength, notified, caches, now, returned, options, caches_init, stmt_getShortIdsExist, backend_init, initialised, gen>>

\* A day passes.
Tick ==
    /\ now < MaxTime
    /\ now' = now + 1
    /\ last' = Environment
    /\ callers' = Beside
    /\ UNCHANGED <<shortIdLength, notified, links, caches, returned, options, caches_init, stmt_getShortIdsExist, backend_init, initialised, gen>>

\* A cache tier drops an entry (cache.delete, or the tier's own eviction).
CacheDelete(i, shortId) ==
    /\ i \in 1..Len(caches)
    /\ shortId \in DOMAIN caches[i]
    /\ caches' = [caches EXCEPT ![i] = cache_delete(caches[i], shortId)]
    /\ last' = Environment
    /\ callers' = Beside
    /\ UNCHANGED <<shortIdLength, notified, links, now, returned, options, caches_init, stmt_getShortIdsExist, backend_init, initialised, gen>>

\* cache.set(shortId, targetUrl) called on a tier from outside the manager,
\* as the tests do to fill a tier: any pair is stored.
CacheSet(i, shortId, targetUrl) ==
    /\ i \in 1..Len(caches)
    /\ caches' = [caches EXCEPT ![i] = cache_set(caches[i], shortId, targetUrl)]
    /\ Cardinality(DOMAIN caches'[i]) <= MaxCached
    /\ last' = Environment
    /\ callers' = Beside
    /\ UNCHANGED <<shortIdLength, notified, links, now, returned, options, caches_init, stmt_getShortIdsExist, backend_init, initialised, gen>>

\* Another client of the backend creates a link: backend.createShortLink
\* called directly, as the tests do.
backendCreateShortLink(shortId, targetUrl, maxLinks) ==
    /\ ~backend_createShortLinkThrows(links, shortId)
    /\ links' = backend_createShortLink(links, shortId, targetUrl, now)
    /\ Cardinality(Records(links')) <= maxLinks
    /\ last' = Environment
    /\ callers' = Beside
    /\ UNCHANGED <<shortIdLength, notified, caches, now, returned, options, caches_init, stmt_getShortIdsExist, backend_init, initialised, gen>>

BackendCreateShortLink(shortId, targetUrl) ==
    backendCreateShortLink(shortId, targetUrl, MaxLinks)

\* A step of a call of the caller c.
Calls(c) ==
    \/ \E targetUrl \in Urls : CreateShortLink(c, targetUrl)
    \/ CreateChecked(c)
    \/ CreateNotified(c)
    \/ CreateCreated(c)
    \/ \E shortId \in Ids : GetTargetUrl(c, shortId)
    \/ GetInited(c)
    \/ GetGot(c)
    \/ GetRead(c)
    \/ GetTouched(c)
    \/ GetSet(c)

Next ==
    \/ \E c \in 1..Callers : Calls(c)
    \/ \E shortId \in Ids : UpdateShortLinkLastAccessTime(shortId)
    \/ \E maxAge \in 0..MaxAge : CleanUnusedLinks(maxAge)
    \/ Tick
    \/ \E i \in 1..MaxCaches, shortId \in Ids : CacheDelete(i, shortId)
    \/ \E i \in 1..MaxCaches, shortId \in Ids, targetUrl \in Urls : CacheSet(i, shortId, targetUrl)
    \/ \E shortId \in Ids, targetUrl \in Urls :
            BackendCreateShortLink(shortId, targetUrl)

Spec == Init /\ [][Next]_vars
----------------------------------------------------------------------------
(* The calls of one caller, each running from its call to its end between   *)
(* the steps of the others.                                                 *)

\* The steps of a createShortLink call of the caller c once it is made.
CreateSteps(c) ==
    \/ CreateChecked(c)
    \/ CreateNotified(c)
    \/ CreateCreated(c)

\* The steps of a getTargetUrl call of the caller c.
GetSteps(c) ==
    \/ \E shortId \in Ids : GetTargetUrl(c, shortId)
    \/ GetInited(c)
    \/ GetGot(c)
    \/ GetRead(c)
    \/ GetTouched(c)
    \/ GetSet(c)

----------------------------------------------------------------------------
(* The manager alone: every change of the backend and of the tiers is made  *)
(* through the manager, which is constructed with any of the options.  One  *)
(* caller makes the calls of createShortLink, escalations included, and of  *)
(* getTargetUrl; touches, prunes and the clock run between their awaits.    *)

\* await createManager({backend, caches, shortIdLength, onShortIdLengthUpdated, options})
\* with up to MaxCaches tiers that define no init, as the InMemoryCache of
\* the tests of the options: a read waits at await cache.init?.() and calls
\* nothing there.
InitManager ==
    /\ shortIdLength = InitialLength
    /\ notified = <<>>
    /\ links = <<>>
    /\ caches \in {[i \in 1..n |-> <<>>] : n \in 0..MaxCaches}
    /\ caches_init = [i \in 1..Len(caches) |-> Undefined]
    /\ now = 0
    /\ backend_init = Undefined
    /\ initialised = FALSE
    /\ last = Op("createManager", Null, Null, Null, FALSE, createManager(backend_init), <<>>)
    /\ returned = <<>>
    /\ options \in Options
    /\ stmt_getShortIdsExist = NotPrepared
    /\ gen = NotCalled
    /\ callers = [c \in 1..Callers |-> Idle]

\* manager.createShortLink(targetUrl), called while the length is at most
\* MaxLen and the backend has room for another identifier of that length.
CreateShortLinkShort(c, targetUrl) ==
    createShortLink(c, targetUrl, MaxLen, MaxLinks - 1, FALSE, 0)

NextManager ==
    \/ \E targetUrl \in StoredUrls : CreateShortLinkShort(1, targetUrl)
    \/ CreateSteps(1)
    \/ GetSteps(1)
    \/ \E shortId \in Ids : UpdateShortLinkLastAccessTime(shortId)
    \/ \E maxAge \in 0..MaxAge : CleanUnusedLinks(maxAge)
    \/ Tick

SpecManager == InitManager /\ [][NextManager]_vars

\* await createManager({backend, ...}) with a backend that defines init, as
\* the D1 backend does, or with one that does not, and with tiers that
\* define no init.
InitBackendInit ==
    /\ shortIdLength = InitialLength
    /\ notified = <<>>
    /\ links = <<>>
    /\ caches \in {[i \in 1..n |-> <<>>] : n \in 0..MaxCaches}
    /\ caches_init = [i \in 1..Len(caches) |-> Undefined]
    /\ now = 0
    /\ backend_init \in {"defined", Undefined}
    /\ initialised = FALSE
    /\ last = Op("createManager", Null, Null, Null, FALSE, createManager(backend_init), <<>>)
    /\ returned = <<>>
    /\ options = NoOptions
    /\ stmt_getShortIdsExist = NotPrepared
    /\ gen = NotCalled
    /\ callers = [c \in 1..Callers |-> Idle]

SpecInit == InitBackendInit /\ [][NextManager]_vars

----------------------------------------------------------------------------
(* Reads: the getTargetUrl calls of one caller on a backend and on tiers    *)
(* that other clients fill and empty between its awaits.                    *)

NextRead ==
    \/ GetSteps(1)
    \/ \E i \in 1..MaxCaches, shortId \in Ids : CacheDelete(i, shortId)
    \/ \E i \in 1..MaxCaches, shortId \in Ids, targetUrl \in StoredUrls :
            CacheSet(i, shortId, targetUrl)
    \/ \E shortId \in Ids, targetUrl \in StoredUrls :
            BackendCreateShortLink(shortId, targetUrl)

SpecRead == Init /\ [][NextRead]_vars

----------------------------------------------------------------------------
(* Creation alone: sequences of createShortLink calls on a backend that     *)
(* other clients fill too, with room for three saturated lengths.          *)

\* The URLs created under SpecCreate.
CreateUrls == {"https://poto.nz"}

\* manager.createShortLink(targetUrl), called while the length is at most
\* StartLen, the shortId returned kept.
CreateShortLinkDeep(c, targetUrl) ==
    createShortLink(c, targetUrl, StartLen, DeepLinks, TRUE, 0)

BackendCreateShortLinkDeep(shortId, targetUrl) ==
    backendCreateShortLink(shortId, targetUrl, DeepLinks)

NextCreate ==
    \/ \E targetUrl \in CreateUrls : CreateShortLinkDeep(1, targetUrl)
    \/ CreateSteps(1)
    \/ \E shortId \in DeepIds, targetUrl \in CreateUrls :
            BackendCreateShortLinkDeep(shortId, targetUrl)

\* The manager is given one cache tier, which defines no init, as the
\* InMemoryCache of the tests of the options: creation calls no tier.
InitCreate == Init /\ Len(caches) = 1 /\ caches_init[1] = Undefined

SpecCreate == InitCreate /\ [][NextCreate]_vars

----------------------------------------------------------------------------
(* The length over every operation of the manager: creation with room for   *)
(* three saturated lengths, beside reads, touches and prunes, within a day. *)

\* manager.createShortLink(targetUrl), called while the length is the one
\* the manager was constructed with.
CreateShortLinkStart(c, targetUrl) ==
    createShortLink(c, targetUrl, InitialLength, DeepLinks, FALSE, 0)

NextLength ==
    \/ \E targetUrl \in CreateUrls : CreateShortLinkStart(1, targetUrl)
    \/ CreateSteps(1)
    \/ \E shortId \in DeepIds, targetUrl \in CreateUrls :
            BackendCreateShortLinkDeep(shortId, targetUrl)
    \/ \E shortId \in Ids : GetTargetUrl(1, shortId)
    \/ GetRead(1)
    \/ GetTouched(1)
    \/ \E shortId \in Ids : UpdateShortLinkLastAccessTime(shortId)
    \/ \E maxAge \in 0..MaxAge : CleanUnusedLinks(maxAge)

\* The manager is given no cache tier: a getTargetUrl awaits the backend only.
InitNoTier == Init /\ caches = <<>>

SpecLength == InitNoTier /\ [][NextLength]_vars

----------------------------------------------------------------------------
(* Faults: a call the manager awaits on the backend or on a cache tier      *)
(* rejects.  No operation of the manager has a try / catch, so the          *)
(* operation ends at that call with what the calls before it have done.      *)

\* The longest shortIdLength at which a createShortLink is called under
\* SpecFault.
FaultLen == 1

\* The most calls a getTargetUrl makes on the backend and on the tiers:
\* cache.init, cache.get and cache.set on every tier, and two on the backend.
GetCalls == 3 * MaxCaches + 2

\* The most calls a createShortLink makes on the backend.
CreateCalls == MaxAttempts + 1

\* manager.getTargetUrl(shortId), its k-th call rejecting.
GetTargetUrlFailing(c, shortId, k) == getTargetUrl(c, shortId, k)

\* manager.createShortLink(targetUrl), its k-th call on the backend rejecting.
CreateShortLinkFailing(c, targetUrl, k) ==
    createShortLink(c, targetUrl, FaultLen, MaxLinks, FALSE, k)

\* The steps of a call once it is made.
Resumed(c) ==
    \/ CreateSteps(c)
    \/ GetInited(c)
    \/ GetGot(c)
    \/ GetRead(c)
    \/ GetTouched(c)
    \/ GetSet(c)

NextFault ==
    \/ \E shortId \in Ids, k \in 1..GetCalls : GetTargetUrlFailing(1, shortId, k)
    \/ \E targetUrl \in CreateUrls, k \in 1..CreateCalls :
            CreateShortLinkFailing(1, targetUrl, k)
    \/ Resumed(1)
    \/ Tick

SpecFault == Init /\ [][NextFault]_vars
----------------------------------------------------------------------------
(* Properties *)

\* The names of the calls an operation made, in order.
CallNames(calls) == [k \in 1..Len(calls) |-> calls[k].call]

\* Every candidate of the round's batch was reported as existing.
Saturated(r) == Range(r.listToTest) \subseteq Range(r.existed)

CreateReturned == last.op = "createShortLink" /\ ~last.threw

\* The operation op ended at the last step, and nothing else ran between
\* its call and its end: last.at is the state it was called in.
Ran(op) == last.op = op /\ last.at.alone

\* C1. Uniqueness: over any sequence of createShortLink calls on one backend,
\* no two calls that return successfully return the same shortId.
C1_Uniqueness ==
    \A i, j \in 1..Len(returned) : i # j => returned[i] # returned[j]

\* Three calls have returned, the last after an escalation.
C1_Witness ==
    /\ Len(returned) = 3
    /\ CreateReturned
    /\ Len(last.rounds) > 1

\* C2. Round trip, as the claim states it: after any sequence of creates,
\* reads and prunes, the getTargetUrl(id) that immediately follows a
\* successful id = createShortLink(targetUrl) returns targetUrl.
C2_RoundTrip ==
    (/\ Ran("getTargetUrl")
     /\ last.at.prior.op = "createShortLink"
     /\ last.at.prior.alone
     /\ ~last.at.prior.threw
     /\ last.shortId = last.at.prior.result)
    => last.result = last.at.prior.targetUrl

\* C3. Write-through on create, as the claim states it: when
\* createShortLink(targetUrl) returns shortId, every configured cache tier
\* holds shortId -> targetUrl.
C3_WriteThrough ==
    CreateReturned =>
        \A i \in 1..Len(caches) :
            /\ last.result \in DOMAIN caches[i]
            /\ caches[i][last.result] = last.targetUrl

\* C4. Escalation: if every candidate of the batch at length L is reported
\* as existing, createShortLink raises the length to L + 1, calls
\* onShortIdLengthUpdated with a value greater than L, and a shortId that the
\* call returns has at least L + 1 characters.
C4_Escalation ==
    last.op = "createShortLink" =>
        \A k \in 1..Len(last.rounds) :
            LET r == last.rounds[k]
                L == r.length
                updates == Notifications(last.calls)
                \* pass k is the j-th saturated pass of the call
                j == Cardinality({m \in 1..k : Saturated(last.rounds[m])})
            IN  Saturated(r) =>
                    /\ shortIdLength >= L + 1
                    /\ k < Len(last.rounds) => last.rounds[k + 1].length = L + 1
                    /\ Len(updates) >= j
                    /\ updates[j] > L
                    /\ updates[j] = L + 1
                    /\ notified[Len(notified) - Len(updates) + j] = updates[j]
                    /\ ~last.threw => Len(last.result) >= L + 1

\* A call that found a full batch taken, escalated and returned a shortId.
C4_Witness ==
    /\ CreateReturned
    /\ Len(last.rounds) = 2
    /\ Saturated(last.rounds[1])
    /\ Len(last.rounds[1].listToTest) = BatchCount

\* C5. Exhaustion: if no free candidate is found in any of the bounded
\* attempts, createShortLink fails with an error, backend.createShortLink
\* is never invoked and no cache tier is written.
C5_Exhaustion ==
    (/\ last.op = "createShortLink"
     /\ Len(last.rounds) = MaxAttempts
     /\ \A k \in 1..MaxAttempts : Saturated(last.rounds[k]))
    => /\ last.threw
       /\ last.result = Null
       /\ "backend.createShortLink" \notin Range(CallNames(last.calls))
       /\ "cache.set" \notin Range(CallNames(last.calls))
       /\ "" \notin DOMAIN links

\* A call whose three attempts were all saturated, on a manager with caches.
C5_Witness ==
    /\ last.op = "createShortLink"
    /\ Len(last.rounds) = MaxAttempts
    /\ \A k \in 1..MaxAttempts : Saturated(last.rounds[k])
    /\ Len(caches) > 0

\* The tiers asked with cache.get, and the tiers written with cache.set, in
\* the order of the calls.
TiersCalled(calls, name) ==
    LET cs == SelectSeq(calls, LAMBDA c : c.call = name)
    IN  [k \in 1..Len(cs) |-> cs[k].n]

\* The tiers that have an entry for shortId.
Holding(cs, shortId) == {i \in 1..Len(cs) : shortId \in DOMAIN cs[i]}

\* The tiers whose get answers a value for shortId.
Hits(cs, shortId) == {i \in 1..Len(cs) : cache_get(cs[i], shortId) # Null}

\* The values a getTargetUrl read from the tiers, in the order of its reads.
Gets(op) == SelectSeq(op.rounds, LAMBDA r : r.call = "cache.get")

\* The positions of the backend reads among the calls of an operation.
BackendReads(op) ==
    {k \in 1..Len(op.calls) : op.calls[k].call = "backend.getTargetUrl"}

\* C6. Cache short-circuit, as the claim states it: if the first cache tier
\* holds an entry for id, getTargetUrl(id) returns that cached value and
\* backend.getTargetUrl is not invoked during the call.
C6_ShortCircuit ==
    (/\ Ran("getTargetUrl")
     /\ 1 \in Holding(last.at.caches, last.shortId))
    => /\ last.result = last.at.caches[1][last.shortId]
       /\ BackendReads(last) = {}

\* C6 for every entry but the empty string, for which it holds.  Of every
\* call, whatever ran between its awaits: the value the first tier answered
\* is the value returned, and the backend is not read; of a call that
\* nothing ran beside: the first tier answers the value it held when the
\* call was made.
C6_ShortCircuitNonEmpty ==
    /\ (/\ last.op = "getTargetUrl"
        /\ ~last.threw
        /\ Gets(last) # <<>>
        /\ Gets(last)[1].value # Null)
       => /\ Gets(last)[1].n = 1
          /\ last.result = Gets(last)[1].value
          /\ BackendReads(last) = {}
    /\ (/\ Ran("getTargetUrl")
        /\ 1 \in Holding(last.at.caches, last.shortId)
        /\ last.at.caches[1][last.shortId] # "")
       => /\ last.result = last.at.caches[1][last.shortId]
          /\ BackendReads(last) = {}

\* C7. First-hit-wins ordering: getTargetUrl asks the tiers with get in
\* registration order; once a tier returns a value it adopts it and asks no
\* later tier; the backend is read only after every tier missed.  The order
\* holds of every call, whatever ran between its awaits; a call that
\* nothing ran beside stops at the first tier that held a value when it was
\* made.
C7_FirstHitWins ==
    /\ (last.op = "getTargetUrl" /\ ~last.threw) =>
        LET gets == Gets(last)
            names == CallNames(last.calls)
            hit == {k \in 1..Len(gets) : gets[k].value # Null}
        IN  /\ \A k \in 1..Len(gets) : gets[k].n = k
            /\ TiersCalled(last.calls, "cache.get") = [k \in 1..Len(gets) |-> k]
            /\ hit # {} => /\ hit = {Len(gets)}
                           /\ last.result = gets[Len(gets)].value
                           /\ BackendReads(last) = {}
            /\ hit = {} => /\ Len(gets) = Len(caches)
                           /\ Cardinality(BackendReads(last)) = 1
                           /\ \A k \in 1..Len(names) :
                                names[k] = "cache.get" =>
                                    \A r \in BackendReads(last) : k < r
    /\ Ran("getTargetUrl") =>
        LET id == last.shortId
            hits == Hits(last.at.caches, id)
        IN  /\ Len(Gets(last)) = (IF hits = {} THEN Len(caches) ELSE Min(hits))
            /\ \A k \in 1..Len(Gets(last)) :
                    Gets(last)[k].value = cache_get(last.at.caches[k], id)

\* A read that missed the first tier and was served by the second, whose
\* value differs from the backend's.
C7_Witness ==
    /\ Ran("getTargetUrl")
    /\ TiersCalled(last.calls, "cache.get") = <<1, 2>>
    /\ BackendReads(last) = {}
    /\ last.shortId \in DOMAIN links
    /\ links[last.shortId].targetUrl # last.result

\* C8, as the claim states it: if all cache tiers lack id and the backend
\* holds id -> url, getTargetUrl(id) returns url and afterwards every cache
\* tier holds id -> url.
C8_PopulationOnMiss ==
    (/\ Ran("getTargetUrl")
     /\ Holding(last.at.caches, last.shortId) = {}
     /\ last.shortId \in DOMAIN last.at.links)
    => LET id == last.shortId
           url == last.at.links[id].targetUrl
       IN  /\ last.result = url
           /\ \A i \in 1..Len(caches) : id \in DOMAIN caches[i] /\ caches[i][id] = url

\* C8 for every url but the empty string, for which it holds.
C8_PopulationOnMissNonEmpty ==
    (/\ Ran("getTargetUrl")
     /\ Holding(last.at.caches, last.shortId) = {}
     /\ last.shortId \in DOMAIN last.at.links
     /\ last.at.links[last.shortId].targetUrl # "")
    => LET id == last.shortId
           url == last.at.links[id].targetUrl
       IN  /\ last.result = url
           /\ \A i \in 1..Len(caches) : id \in DOMAIN caches[i] /\ caches[i][id] = url

\* C9, as the claim states it: whenever getTargetUrl(id) resolves a value,
\* from a cache tier or from the backend, it writes that value into every
\* configured tier, the tiers that hit included, so that afterwards all
\* tiers hold the returned value for id.
C9_Convergence ==
    (Ran("getTargetUrl") /\ last.result # Null)
    => /\ TiersCalled(last.calls, "cache.set") = [i \in 1..Len(caches) |-> i]
       /\ \A i \in 1..Len(caches) :
            last.shortId \in DOMAIN caches[i] /\ caches[i][last.shortId] = last.result

\* C9 whenever the value resolved is not the empty string, for which it
\* holds.
C9_ConvergenceNonEmpty ==
    (Ran("getTargetUrl") /\ last.result # Null /\ last.result # "")
    => /\ TiersCalled(last.calls, "cache.set") = [i \in 1..Len(caches) |-> i]
       /\ \A i \in 1..Len(caches) :
            last.shortId \in DOMAIN caches[i] /\ caches[i][last.shortId] = last.result

\* C10. No negative caching: getTargetUrl on an id held by no cache tier and
\* not by the backend returns absent and leaves every tier without an entry
\* for it; if the link is then created in the backend, the next
\* getTargetUrl(id) returns its URL.
C10_NoNegativeCaching ==
    (/\ Ran("getTargetUrl")
     /\ Holding(last.at.caches, last.shortId) = {}
     /\ last.shortId \notin DOMAIN last.at.links)
    => LET id == last.shortId
       IN  /\ last.result = Null
           /\ Holding(caches, id) = {}
           /\ \A url \in Urls :
                getTargetUrl_alone(caches, caches_init, backend_createShortLink(links, id, url, now),
                                   id, now) = url

\* A read of an unknown id on a manager with two tiers.
C10_Witness ==
    /\ Ran("getTargetUrl")
    /\ last.result = Null
    /\ Len(caches) = 2
    /\ TiersCalled(last.calls, "cache.get") = <<1, 2>>
    /\ last.shortId \notin DOMAIN links

\* The calls to backend.updateShortLinkLastAccessTime among calls.
Updates(calls) == SelectSeq(calls, LAMBDA c : c.call = "backend.updateShortLinkLastAccessTime")

\* C11. Not-found is a value: getTargetUrl on an id unknown to every cache
\* tier and to the backend completes without error, returns absent, does not
\* invoke backend.updateShortLinkLastAccessTime and leaves the backend's
\* records unchanged.  The call ends with an error only when a call it
\* awaited on a tier or on the backend rejected, and then too the backend's
\* records are as they were.  Of every call, whatever ran between its
\* awaits: a call that resolved no value has not called the update.
C11_NotFoundIsAValue ==
    /\ (/\ Ran("getTargetUrl")
        /\ Hits(last.at.caches, last.shortId) = {}
        /\ last.shortId \notin DOMAIN last.at.links)
       => /\ last.threw <=> (\E k \in 1..Len(last.calls) : "failed" \in DOMAIN last.calls[k])
          /\ last.result = Null
          /\ Updates(last.calls) = <<>>
          /\ links = last.at.links
    /\ (last.op = "getTargetUrl" /\ ~last.threw /\ last.result = Null)
       => Updates(last.calls) = <<>>

\* A read of an unknown id that asked two tiers and the backend, none of
\* its calls rejecting, beside a record of another id.
C11_Witness ==
    /\ Ran("getTargetUrl")
    /\ last.result = Null
    /\ ~last.threw
    /\ last.shortId \notin DOMAIN links
    /\ TiersCalled(last.calls, "cache.get") = <<1, 2>>
    /\ BackendReads(last) # {}
    /\ DOMAIN links # {}

\* A read of an unknown id that ended with the error of its backend read.
C11_WitnessFault ==
    /\ Ran("getTargetUrl")
    /\ last.threw
    /\ last.shortId \notin DOMAIN links
    /\ last.calls[Len(last.calls)].call = "backend.getTargetUrl"
    /\ Hits(last.at.caches, last.shortId) = {}

\* C12. Access-time toggle off: with options.shouldUpdateLastAccessOnGet =
\* false, getTargetUrl never invokes backend.updateShortLinkLastAccessTime,
\* so a successful read leaves the record's lastAccessedAt unchanged.
C12_ToggleOff ==
    (/\ options.shouldUpdateLastAccessOnGet = "false"
     /\ last.op = "getTargetUrl")
    => /\ Updates(last.calls) = <<>>
       /\ (last.at.alone /\ last.shortId \in DOMAIN last.at.links)
            => links[last.shortId].lastAccessedAt
                    = last.at.links[last.shortId].lastAccessedAt

\* C13, as the claim states it: with shouldUpdateLastAccessOnGet true or
\* unset, every getTargetUrl that resolves a value invokes
\* backend.updateShortLinkLastAccessTime(shortId) exactly once, whether the
\* value came from a cache tier or from the backend, so that a read after the
\* clock advanced strictly increases lastAccessedAt.
C13_ToggleOn ==
    (/\ options.shouldUpdateLastAccessOnGet # "false"
     /\ last.op = "getTargetUrl"
     /\ ~last.threw
     /\ last.result # Null)
    => LET id == last.shortId
       IN  /\ Len(Updates(last.calls)) = 1
           /\ (/\ last.at.alone
               /\ id \in DOMAIN last.at.links
               /\ last.at.links[id].lastAccessedAt < last.at.now)
                => links[id].lastAccessedAt > last.at.links[id].lastAccessedAt

\* C13 for the values that are not the empty string, for which it holds.
C13_ToggleOnNonEmpty ==
    (/\ options.shouldUpdateLastAccessOnGet # "false"
     /\ last.op = "getTargetUrl"
     /\ ~last.threw
     /\ last.result # Null
     /\ last.result # "")
    => LET id == last.shortId
       IN  /\ Len(Updates(last.calls)) = 1
           /\ (/\ last.at.alone
               /\ id \in DOMAIN last.at.links
               /\ last.at.links[id].lastAccessedAt < last.at.now)
                => links[id].lastAccessedAt > last.at.links[id].lastAccessedAt

\* C15. Cache/backend agreement: starting from empty caches, after any
\* sequence of createShortLink, getTargetUrl and cleanUnusedLinks calls
\* through the manager, every cache entry for a shortId that exists in the
\* backend holds the targetUrl of the backend's record.
C15_Agreement ==
    \A i \in 1..Len(caches) : \A id \in DOMAIN caches[i] \cap DOMAIN links :
        caches[i][id] = links[id].targetUrl

\* C16. Mapping immutability: once a shortId exists in the backend, no
\* manager operation changes its targetUrl; the targetUrl of a record is the
\* same in every state between its creation and its pruning.
C16_Immutability ==
    [][\A id \in DOMAIN links \cap DOMAIN links' :
            links'[id].targetUrl = links[id].targetUrl]_vars

\* A record read a day after its creation, in a backend with no identifier
\* left free.
C16_Witness ==
    /\ last.op = "getTargetUrl"
    /\ last.shortId \in DOMAIN links
    /\ now > 0
    /\ links[last.shortId].lastAccessedAt = now
    /\ last.result = links[last.shortId].targetUrl
    /\ DOMAIN links = Ids

\* C19. Pruning does not touch caches: manager.cleanUnusedLinks(maxAge)
\* invokes backend.cleanUnusedLinks(maxAge) once and leaves every cache tier
\* and shortIdLength unchanged, so that a cache entry of a pruned shortId
\* remains after the call.
C19_PruningLeavesCaches ==
    [][last'.op = "cleanUnusedLinks" =>
        /\ Len(last'.calls) = 1
        /\ last'.calls[1].call = "backend.cleanUnusedLinks"
        /\ caches' = caches
        /\ shortIdLength' = shortIdLength
       ]_vars

\* After a pruning a tier holds an entry of a shortId the backend has not.
C19_Witness ==
    /\ last.op = "cleanUnusedLinks"
    /\ \E i \in 1..Len(caches) : \E id \in DOMAIN caches[i] : id \notin DOMAIN links

----------------------------------------------------------------------------
(* Properties of the creation loop, call by call (SpecCreate) *)

\* The positions of the candidates of a round that were not reported as
\* existing.
Free(r) == {i \in 1..Len(r.listToTest) : r.listToTest[i] \notin Range(r.existed)}

\* C25. Candidate choice: in each batch round createShortLink selects the
\* first identifier, in the order returned by the generator, that is not in
\* the list returned by checkShortIdsExist for that batch, and the loop
\* stops at the first round that yields one.
C25_CandidateChoice ==
    last.op = "createShortLink" =>
        \A k \in 1..Len(last.rounds) :
            LET r == last.rounds[k]
            IN  /\ Free(r) # {} =>
                    /\ k = Len(last.rounds)
                    /\ last.shortId = r.listToTest[Min(Free(r))]
                    /\ ~last.threw => last.result = last.shortId
                    /\ last.at.alone => ~last.threw
                /\ Free(r) = {} =>
                    /\ k < Len(last.rounds) \/ last.threw
                    /\ k = Len(last.rounds) => last.shortId = ""

\* A call escalated, then chose the second candidate of a batch whose first
\* was taken; and a call chose the first of two free candidates.
C25_Witness ==
    /\ CreateReturned
    /\ Len(last.rounds) = 2
    /\ LET r == last.rounds[2]
       IN  Len(r.listToTest) = 2 /\ Free(r) = {2}

C25_WitnessBothFree ==
    /\ CreateReturned
    /\ LET r == last.rounds[Len(last.rounds)]
       IN  Len(r.listToTest) = 2 /\ Free(r) = {1, 2}

\* The saturated rounds of a call.
SaturatedRounds(rounds) == {k \in 1..Len(rounds) : Saturated(rounds[k])}

\* The step is the one at which the createShortLink call of the caller c
\* finds the batch it has checked saturated.
Escalating(c) ==
    /\ callers[c].op = "createShortLink"
    /\ callers[c].pc = "backend.checkShortIdsExist"
    /\ callers'[c].pc = "onShortIdLengthUpdated"
    /\ Saturated(callers[c].rounds[Len(callers[c].rounds)])

\* C27. Length is monotonic and only escalation changes it: shortIdLength
\* never decreases; it changes only inside createShortLink, by exactly +1
\* per saturated batch; getTargetUrl, updateShortLinkLastAccessTime and
\* cleanUnusedLinks leave it unchanged.
C27_LengthMonotonic ==
    [][/\ shortIdLength' >= shortIdLength
       /\ shortIdLength' # shortIdLength =>
            /\ shortIdLength' = shortIdLength + 1
            /\ \E c \in 1..Callers : Escalating(c)
       /\ (\E c \in 1..Callers : Escalating(c)) => shortIdLength' = shortIdLength + 1
       /\ (last'.op = "createShortLink" /\ last'.at.alone) =>
            shortIdLength' = last'.at.shortIdLength
                                + Cardinality(SaturatedRounds(last'.rounds))
       /\ (last'.op = "getTargetUrl" /\ last'.at.alone) =>
            shortIdLength' = last'.at.shortIdLength
       /\ last'.op \in {"updateShortLinkLastAccessTime", "cleanUnusedLinks"}
            => shortIdLength' = shortIdLength
       /\ \A c \in 1..Callers :
            (callers[c].op = "getTargetUrl" /\ callers'[c] # Disturbed(callers[c]))
                => shortIdLength' = shortIdLength
      ]_vars

\* A call has met two saturated batches and a prune has run after it.
C27_Witness ==
    /\ shortIdLength = InitialLength + 2
    /\ notified = <<InitialLength + 1, InitialLength + 2>>
    /\ last.op = "cleanUnusedLinks"
    /\ Cardinality(Records(links)) = DeepLinks

\* The positions in calls of the calls to the function named name.
Positions(name, calls) == {p \in 1..Len(calls) : calls[p].call = name}

\* C28. Callback per escalation: each escalation invokes
\* onShortIdLengthUpdated exactly once with the new length (old length + 1),
\* before the next batch is generated at that new length; the callback is
\* never invoked when a free candidate is found, and the value last passed
\* to it always equals the manager's current shortIdLength.
C28_CallbackPerEscalation ==
    /\ last.op = "createShortLink" =>
        LET checks == Positions("backend.checkShortIdsExist", last.calls)
            \* the position of the check of round k
            checkOf(k) == CHOOSE p \in checks :
                            Cardinality({q \in checks : q <= p}) = k
            \* the calls between the check of round k and the next check
            after(k) == {p \in 1..Len(last.calls) :
                            /\ p > checkOf(k)
                            /\ k < Len(last.rounds) => p < checkOf(k + 1)}
            ups(k) == after(k) \cap Positions("onShortIdLengthUpdated", last.calls)
        IN  /\ Cardinality(checks) = Len(last.rounds)
            /\ \A k \in 1..Len(last.rounds) :
                LET r == last.rounds[k]
                IN  /\ Saturated(r) =>
                        /\ Cardinality(ups(k)) = 1
                        /\ \A p \in ups(k) :
                            /\ last.calls[p].n = r.length + 1
                            /\ p = checkOf(k) + 1
                        /\ k < Len(last.rounds) => last.rounds[k + 1].length = r.length + 1
                    /\ ~Saturated(r) => ups(k) = {}
    /\ notified # <<>> => notified[Len(notified)] = shortIdLength

\* A call escalated, then found a free candidate; the callback had been
\* called by an earlier call too.
C28_Witness ==
    /\ CreateReturned
    /\ Len(last.rounds) = 2
    /\ Len(Notifications(last.calls)) = 1
    /\ Len(notified) = 2

\* A call escalated twice, then found a free candidate.
C28_WitnessTwice ==
    /\ CreateReturned
    /\ Len(last.rounds) = 3
    /\ Len(Notifications(last.calls)) = 2

\* C29. In sequential execution, the shortId returned by createShortLink
\* has length equal to the manager's shortIdLength at the moment the call
\* returns, which is the value last passed to onShortIdLengthUpdated if any
\* escalation occurred.
C29_ReturnedLength ==
    CreateReturned =>
        /\ Len(last.result) = shortIdLength
        /\ Notifications(last.calls) # <<>> =>
            /\ Len(last.result) = Notifications(last.calls)[Len(Notifications(last.calls))]
            /\ Len(last.result) = notified[Len(notified)]
        /\ last.result = returned[Len(returned)]

\* A call returned a shortId after two escalations.
C29_Witness ==
    /\ CreateReturned
    /\ Len(Notifications(last.calls)) = 2
    /\ Len(last.result) = InitialLength + 2

----------------------------------------------------------------------------
(* Properties of faults and of construction *)

\* The calls of an operation that rejected.
FaultsOf(op) == {k \in 1..Len(op.calls) : "failed" \in DOMAIN op.calls[k]}

\* C18. Fault propagation without retry: when a backend or cache operation
\* invoked inside createShortLink or getTargetUrl fails, the manager
\* operation fails and issues no further backend or cache call; a failed
\* backend.createShortLink leaves every cache tier unchanged, and a failed
\* updateShortLinkLastAccessTime in getTargetUrl leaves every cache tier
\* unchanged.
C18_FaultPropagation ==
    FaultsOf(last) # {} =>
        LET n == Len(last.calls)
            fault == last.calls[n]
            names == CallNames(last.calls)
        IN  /\ last.threw
            /\ last.result = Null
            /\ FaultsOf(last) = {n}
            /\ fault.call = "backend.createShortLink" =>
                    /\ "cache.set" \notin Range(names)
                    /\ last.at.alone => caches = last.at.caches /\ links = last.at.links
            /\ fault.call = "backend.updateShortLinkLastAccessTime" =>
                    /\ "cache.set" \notin Range(names)
                    /\ last.at.alone => caches = last.at.caches /\ links = last.at.links
            /\ fault.call = "cache.set" =>
                    /\ \A k \in 1..(n - 1) : names[k] = "cache.set" => last.calls[k].n < fault.n
                    /\ last.at.alone =>
                        \A i \in (fault.n)..Len(caches) : caches[i] = last.at.caches[i]

\* A getTargetUrl on two empty tiers that ended at a rejected access-time
\* update of a link the backend holds.
C18_Witness ==
    /\ FaultsOf(last) # {}
    /\ Ran("getTargetUrl")
    /\ last.calls[Len(last.calls)].call = "backend.updateShortLinkLastAccessTime"
    /\ Len(caches) = 2
    /\ last.shortId \in DOMAIN links
    /\ ~Falsy(links[last.shortId].targetUrl)
    /\ Holding(caches, last.shortId) = {}

\* A createShortLink that ended at a rejected backend call after an
\* escalation.
C18_WitnessCreate ==
    /\ FaultsOf(last) # {}
    /\ last.op = "createShortLink"
    /\ Len(Notifications(last.calls)) = 1
    /\ shortIdLength = InitialLength + 1

\* The backend operations among the calls of an operation.
BackendCalls(calls) == SelectSeq(calls, LAMBDA c : c.call \in
    {"backend.init", "backend.getTargetUrl", "backend.createShortLink",
     "backend.checkShortIdsExist", "backend.updateShortLinkLastAccessTime",
     "backend.cleanUnusedLinks"})

\* The invocations of backend.init among the calls of an operation.
InitCalls(calls) == SelectSeq(calls, LAMBDA c : c.call = "backend.init")

\* C22. Backend init once: createManager invokes backend.init, when the
\* backend defines it, exactly once, before the manager is returned and
\* before any other backend operation, and no operation of the manager
\* invokes it again.
C22_BackendInitOnce ==
    /\ last.op = "createManager" /\ backend_init # Undefined
        => /\ Len(InitCalls(last.calls)) = 1
           /\ BackendCalls(last.calls)[1].call = "backend.init"
    /\ last.op = "createManager" /\ backend_init = Undefined
        => InitCalls(last.calls) = <<>>
    /\ last.op # "createManager" => InitCalls(last.calls) = <<>>
    /\ \A c \in 1..Callers : InitCalls(callers[c].calls) = <<>>

\* A manager whose backend defines init has served a createShortLink and a
\* getTargetUrl that reached the backend.
C22_Witness ==
    /\ backend_init # Undefined
    /\ Records(links) # {}
    /\ last.op = "getTargetUrl"
    /\ BackendCalls(last.calls) # <<>>

----------------------------------------------------------------------------
(* Properties of the access time, of pruning and of the tiers' setup *)

\* The records a prune with maxAge keeps when they were last accessed less
\* than maxAge days before it.
KeptWhenRecent ==
    last'.op = "cleanUnusedLinks" =>
        \A id \in DOMAIN links :
            now - links[id].lastAccessedAt < last'.calls[1].n => id \in DOMAIN links'

\* C33. Keep-alive by reading, as the claim states it: with update-on-read
\* enabled, a link that is read through getTargetUrl, reads served from a
\* cache hit included, at intervals shorter than maxAge days is never
\* removed by cleanUnusedLinks(maxAge).  In steps: every read of an existing
\* link sets its lastAccessedAt to the time of the read, and a prune keeps
\* every record accessed less than maxAge days before it (lastAccessedAt
\* never decreasing in between, C32).
C33_KeepAlive ==
    [][options.shouldUpdateLastAccessOnGet # "false" =>
        /\ (/\ last'.op = "getTargetUrl"
            /\ last'.at.alone
            /\ last'.shortId \in DOMAIN last'.at.links)
                => /\ last'.shortId \in DOMAIN links'
                   /\ links'[last'.shortId].lastAccessedAt = now'
        /\ KeptWhenRecent
      ]_vars

\* C33 for the links whose target URL is not the empty string, for which
\* it holds.
C33_KeepAliveNonEmpty ==
    [][options.shouldUpdateLastAccessOnGet # "false" =>
        /\ (/\ last'.op = "getTargetUrl"
            /\ last'.at.alone
            /\ last'.shortId \in DOMAIN last'.at.links
            /\ last'.at.links[last'.shortId].targetUrl # "")
                => /\ last'.shortId \in DOMAIN links'
                   /\ links'[last'.shortId].lastAccessedAt = now'
        /\ KeptWhenRecent
      ]_vars

\* C34. Stale entries are not refreshed, as the claim states it: once a
\* record has been pruned from the backend, no later manager operation
\* writes that shortId into any cache tier, and none touches its access
\* time, unless the backend holds the shortId again.
C34_StaleNotRefreshed ==
    [][\A id \in Ids :
        (id \notin DOMAIN links /\ last'.op # "environment")
        => /\ \A i \in 1..Len(caches) :
                /\ id \in DOMAIN caches'[i] => id \in DOMAIN caches[i]
                /\ caches'[i] # caches[i] => id \notin DOMAIN caches'[i]
           /\ (/\ last'.op = "getTargetUrl"
               /\ last'.at.alone
               /\ last'.shortId = id
               /\ id \notin DOMAIN last'.at.links)
                => /\ "cache.set" \notin Range(CallNames(last'.calls))
                   /\ Updates(last'.calls) = <<>>
      ]_vars

\* What holds instead: a read of a shortId the backend has not, which
\* nothing ran beside, writes the tiers only when a tier answered it with its
\* stale entry, and the backend gets no record of it.
C34_StaleRefreshedOnHit ==
    (/\ Ran("getTargetUrl")
     /\ last.shortId \notin DOMAIN last.at.links)
    => /\ links = last.at.links
       /\ Hits(last.at.caches, last.shortId) = {}
            => /\ caches = last.at.caches
               /\ Updates(last.calls) = <<>>

\* The positions of calls at which tier i is called with name.
CallsAt(calls, name, i) ==
    {k \in 1..Len(calls) : calls[k] = Call(name, i)}

\* Of the tiers listed, those that define init.
Initialised(tiers) == SelectSeq(tiers, LAMBDA i : caches_init[i] # Undefined)

\* C35. Cache setup before query, as the claim states it: in getTargetUrl a
\* tier's get is never invoked before that tier's init, and init is
\* performed only on the tiers that are about to be queried, with no setup
\* call on the tiers after the first hit.  The setup step is cache.init?.(),
\* a call on the tiers that define init; the calls of cache.init of a read
\* are those of the tiers it queried that define init.
C35_InitOnlyQueried ==
    (last.op = "getTargetUrl" /\ ~last.threw)
    => /\ \A i \in 1..Len(caches) : caches_init[i] # Undefined =>
            \A k \in CallsAt(last.calls, "cache.get", i) :
                \E j \in CallsAt(last.calls, "cache.init", i) : j < k
       /\ TiersCalled(last.calls, "cache.init")
            = Initialised(TiersCalled(last.calls, "cache.get"))
----------------------------------------------------------------------------
(* The Cloudflare D1 backend (ShortLinksManagerCfD1) on its own: the table  *)
(* sl_links_map is links, a row being short_id -> target_url and            *)
(* last_accessed_at; the clock counts ticks, DayTicks to the day.           *)

\* Ticks of the clock in a day.
DayTicks == 2
\* The last tick of the clock under SpecD1.
D1MaxTime == 3
\* The largest maxAge passed to the D1 backend's cleanUnusedLinks.
D1MaxAge == 1

\* The short ids and the URLs of the rows.
D1Ids == {"aB0", "abc", "def"}
D1Urls == {"https://poto.nz", "https://example.com/test"}

\* The argument lists of checkShortIdsExist: the arrays of distinct ids.
D1Lists == UNION {InsertionOrders(D1Ids, k) : k \in 0..Cardinality(D1Ids)}

\* SELECT target_url ... WHERE short_id = ? LIMIT 1; result?.target_url ?? null
d1_getTargetUrl(table, shortId) ==
    IF shortId \in DOMAIN table THEN table[shortId].targetUrl ELSE Null

\* INSERT OR REPLACE: the insert never fails on the primary key.
d1_createShortLinkThrows_never(table, shortId) == FALSE

\* The INSERT fails on short_id ... NOT NULL PRIMARY KEY.
d1_createShortLinkThrows(table, shortId) == shortId \in DOMAIN table

\* INSERT INTO sl_links_map (short_id, target_url) VALUES (?, ?), with
\* last_accessed_at DEFAULT CURRENT_TIMESTAMP.
d1_createShortLink(table, shortId, targetUrl, t) ==
    [id \in DOMAIN table \cup {shortId} |->
        IF id = shortId THEN [targetUrl |-> targetUrl, lastAccessedAt |-> t]
        ELSE table[id]]

\* The statement after the if (!this.stmt_getShortIdsExist) of
\* checkShortIdsExist(shortIds): prepared once, with one placeholder for each
\* id of the call that prepares it.
d1_prepareShortIdsExist(stmt, shortIds) ==
    IF stmt.prepared THEN stmt
    ELSE [prepared |-> TRUE, placeholders |-> Len(shortIds)]

\* bind(...shortIds) fails when the statement has another number of
\* placeholders than values are bound.
d1_checkShortIdsExistThrows(stmt, shortIds) ==
    d1_prepareShortIdsExist(stmt, shortIds).placeholders # Len(shortIds)

\* What await this.stmt_getShortIdsExist.bind(...shortIds).all() resolves
\* to, SELECT short_id ... WHERE short_id IN (?,...): the rows found, in any
\* order, or a result that is no success.
d1_all(table, shortIds) ==
    LET found == Range(shortIds) \cap DOMAIN table
    IN  {[success |-> TRUE, results |-> rows] :
                rows \in InsertionOrders(found, Cardinality(found))}
            \cup {[success |-> FALSE, results |-> <<>>]}

\* if (!result.success) { return []; }
\* return result.results.map(r => r.short_id);
d1_checkShortIdsExist(result) ==
    IF ~result.success THEN <<>> ELSE result.results

\* UPDATE sl_links_map SET last_accessed_at = 0 WHERE short_id = ?
d1_updateShortLinkLastAccessTime_resets(table, shortId, t) ==
    IF shortId \in DOMAIN table
    THEN [table EXCEPT ![shortId].lastAccessedAt = 0]
    ELSE table

\* UPDATE sl_links_map SET last_accessed_at = CURRENT_TIMESTAMP WHERE short_id = ?
d1_updateShortLinkLastAccessTime(table, shortId, t) ==
    IF shortId \in DOMAIN table
    THEN [table EXCEPT ![shortId].lastAccessedAt = t]
    ELSE table

\* The DELETE with <= for <: a row of exactly maxAge days goes too.
d1_cleanUnusedLinks_inclusive(table, maxAge, t) ==
    LET deleted == {id \in DOMAIN table : table[id].lastAccessedAt <= t - maxAge * DayTicks}
    IN  [id \in DOMAIN table \ deleted |-> table[id]]

\* DELETE FROM sl_links_map WHERE last_accessed_at <
\* datetime(CURRENT_TIMESTAMP, '-<maxAge> days')
d1_cleanUnusedLinks(table, maxAge, t) ==
    LET deleted == {id \in DOMAIN table : table[id].lastAccessedAt < t - maxAge * DayTicks}
    IN  [id \in DOMAIN table \ deleted |-> table[id]]

\* new ShortLinksManagerCfD1(db) on an empty table.
InitD1 == Init /\ caches = <<>>

\* backend.getTargetUrl(shortId)
D1GetTargetUrl(shortId) ==
    /\ last' = Op("d1.getTargetUrl", shortId, Null, d1_getTargetUrl(links, shortId),
                  FALSE, <<>>, <<>>)
    /\ UNCHANGED <<shortIdLength, notified, links, caches, now, returned, options, caches_init,
                   stmt_getShortIdsExist, backend_init, initialised, gen, callers>>

\* backend.createShortLink(shortId, targetUrl)
D1CreateShortLink(shortId, targetUrl) ==
    /\ IF d1_createShortLinkThrows(links, shortId)
       THEN /\ last' = Op("d1.createShortLink", shortId, targetUrl, Null, TRUE, <<>>, <<>>)
            /\ UNCHANGED links
       ELSE /\ last' = Op("d1.createShortLink", shortId, targetUrl, Null, FALSE, <<>>, <<>>)
            /\ links' = d1_createShortLink(links, shortId, targetUrl, now)
    /\ UNCHANGED <<shortIdLength, notified, caches, now, returned, options, caches_init,
                   stmt_getShortIdsExist, backend_init, initialised, gen, callers>>

\* backend.checkShortIdsExist(shortIds)
D1CheckShortIdsExist(shortIds) ==
    /\ stmt_getShortIdsExist' = d1_prepareShortIdsExist(stmt_getShortIdsExist, shortIds)
    /\ IF d1_checkShortIdsExistThrows(stmt_getShortIdsExist, shortIds)
       THEN last' = Op("d1.checkShortIdsExist", Null, Null, Null, TRUE, <<>>,
                       <<[listToTest |-> shortIds, success |-> FALSE, existed |-> <<>>]>>)
       ELSE \E result \in d1_all(links, shortIds) :
                last' = Op("d1.checkShortIdsExist", Null, Null, Null, FALSE, <<>>,
                           <<[listToTest |-> shortIds, success |-> result.success,
                              existed |-> d1_checkShortIdsExist(result)]>>)
    /\ UNCHANGED <<shortIdLength, notified, links, caches, now, returned, options, caches_init,
                   backend_init, initialised, gen, callers>>

\* backend.updateShortLinkLastAccessTime(shortId, time): the method declares
\* shortId alone, and a second argument passed to it is dropped.
D1UpdateShortLinkLastAccessTime(shortId, time) ==
    /\ links' = d1_updateShortLinkLastAccessTime(links, shortId, now)
    /\ last' = Op("d1.updateShortLinkLastAccessTime", shortId, Null, Null, FALSE,
                  <<Call("arguments[1]", time)>>, <<>>)
    /\ UNCHANGED <<shortIdLength, notified, caches, now, returned, options, caches_init,
                   stmt_getShortIdsExist, backend_init, initialised, gen, callers>>

\* backend.cleanUnusedLinks(maxAge)
D1CleanUnusedLinks(maxAge) ==
    /\ links' = d1_cleanUnusedLinks(links, maxAge, now)
    /\ last' = Op("d1.cleanUnusedLinks", Null, Null, Null, FALSE,
                  <<Call("stmt_cleanUnusedLinks.bind", maxAge)>>, <<>>)
    /\ UNCHANGED <<shortIdLength, notified, caches, now, returned, options, caches_init,
                   stmt_getShortIdsExist, backend_init, initialised, gen, callers>>

\* A tick of the clock.
D1Tick ==
    /\ now < D1MaxTime
    /\ now' = now + 1
    /\ last' = Environment
    /\ UNCHANGED <<shortIdLength, notified, links, caches, returned, options, caches_init,
                   stmt_getShortIdsExist, backend_init, initialised, gen, callers>>

\* A row is inserted beside the backend with a last_accessed_at of its own
\* (db.prepare("INSERT ... (short_id, target_url, last_accessed_at) ...")).
D1Insert(shortId, targetUrl, at) ==
    /\ shortId \notin DOMAIN links
    /\ at <= now
    /\ links' = d1_createShortLink(links, shortId, targetUrl, at)
    /\ last' = Environment
    /\ UNCHANGED <<shortIdLength, notified, caches, now, returned, options, caches_init,
                   stmt_getShortIdsExist, backend_init, initialised, gen, callers>>

NextD1 ==
    \/ \E shortId \in D1Ids : D1GetTargetUrl(shortId)
    \/ \E shortId \in D1Ids, targetUrl \in D1Urls : D1CreateShortLink(shortId, targetUrl)
    \/ \E shortIds \in D1Lists : D1CheckShortIdsExist(shortIds)
    \/ \E shortId \in D1Ids, time \in 0..D1MaxTime :
            D1UpdateShortLinkLastAccessTime(shortId, time)
    \/ \E maxAge \in 0..D1MaxAge : D1CleanUnusedLinks(maxAge)
    \/ D1Tick
    \/ \E shortId \in D1Ids, targetUrl \in D1Urls, at \in 0..D1MaxTime :
            D1Insert(shortId, targetUrl, at)

SpecD1 == InitD1 /\ [][NextD1]_vars

\* C14. Pruning boundary: cleanUnusedLinks(maxAge) removes from the backend
\* exactly the records whose lastAccessedAt is older than now minus maxAge
\* days and retains every other record with its targetUrl unchanged.
C14_PruningBoundary ==
    [][last'.op = "d1.cleanUnusedLinks" =>
        LET age(id) == now - links[id].lastAccessedAt
            maxAge == last'.calls[1].n
        IN  \A id \in DOMAIN links :
                IF age(id) > maxAge * DayTicks
                THEN id \notin DOMAIN links'
                ELSE id \in DOMAIN links' /\ links'[id].targetUrl = links[id].targetUrl
       ]_vars

\* A pruning with maxAge of a day after which two rows are left, one of
\* them accessed exactly a day before.
C14_Witness ==
    /\ last.op = "d1.cleanUnusedLinks"
    /\ last.calls[1].n = 1
    /\ now = D1MaxTime
    /\ \E id \in DOMAIN links : now - links[id].lastAccessedAt = DayTicks
    /\ Cardinality(DOMAIN links) = 2

\* C17. Fail-fast create: backend.createShortLink(shortId, targetUrl) on a
\* shortId that exists fails and leaves the existing record unchanged; it
\* never overwrites.
C17_FailFastCreate ==
    [][(last'.op = "d1.createShortLink" /\ last'.shortId \in DOMAIN links)
       => /\ last'.threw
          /\ links' = links
       ]_vars

\* A create that failed on a shortId filed under another URL.
C17_Witness ==
    /\ last.op = "d1.createShortLink"
    /\ last.threw
    /\ last.shortId \in DOMAIN links
    /\ links[last.shortId].targetUrl # last.targetUrl

\* C20. Existence check: in any sequence of checkShortIdsExist calls, with
\* argument lists of any sizes, each call returns exactly the ids of its
\* argument list that exist in the store; an id that does not exist is
\* reported by omission, never as a fault.  The ids returned are compared
\* for the queries that the database answers with a success.
C20_ExistenceCheck ==
    last.op = "d1.checkShortIdsExist" =>
        LET r == last.rounds[1]
        IN  /\ ~last.threw
            /\ r.success => Range(r.existed) = Range(r.listToTest) \cap DOMAIN links


\* C21. Touch on the backend: after
\* backend.updateShortLinkLastAccessTime(shortId, time) on an existing
\* record, with time later than the record's last_accessed_at, the stored
\* last_accessed_at is later than its value before the call, and target_url
\* is unchanged.
C21_Touch ==
    [][(/\ last'.op = "d1.updateShortLinkLastAccessTime"
        /\ last'.shortId \in DOMAIN links
        /\ last'.calls[1].n > links[last'.shortId].lastAccessedAt)
       => /\ links'[last'.shortId].lastAccessedAt > links[last'.shortId].lastAccessedAt
          /\ links'[last'.shortId].targetUrl = links[last'.shortId].targetUrl
       ]_vars


(* Properties of the access time and of pruning *)

\* C32. lastAccessedAt of every existing record is monotonically
\* non-decreasing over any sequence of operations, the clock being
\* non-decreasing, and is set at creation: a record that stays keeps or
\* raises its value, and a record that an operation creates gets the time
\* of its creation.
C32_AccessTimeMonotonic ==
    [][/\ now' >= now
       /\ \A id \in DOMAIN links' :
            /\ links'[id].lastAccessedAt <= now'
            /\ IF id \in DOMAIN links
               THEN links'[id].lastAccessedAt >= links[id].lastAccessedAt
               ELSE last'.op # "environment" => links'[id].lastAccessedAt = now'
      ]_vars

\* A row created earlier was touched after the clock had moved on.
C32_Witness ==
    /\ last.op = "d1.updateShortLinkLastAccessTime"
    /\ last.shortId \in DOMAIN links
    /\ links[last.shortId].lastAccessedAt = now
    /\ now > 1
    /\ \E id \in DOMAIN links : links[id].lastAccessedAt < now


----------------------------------------------------------------------------
(* The generator, draw by draw: generateUniqueShortIds(count, length) runs  *)
(* its while loop one iteration a step.                                     *)

\* ids.add(id) of a Set, kept in insertion order: a member is not added again.
Set_add_push(ids, id) == Append(ids, id)
Set_add(ids, id) == IF id \in Range(ids) THEN ids ELSE Append(ids, id)

\* The loop condition without its budget: ids.size < count alone.
generating_unbounded(g) == Len(g.ids) < g.count

\* ids.size < count && loop < count * 100
generating(g) == Len(g.ids) < g.count /\ g.loop < g.count * DrawBudgetFactor

\* generateUniqueShortIds(count, length): const ids = new Set(); let loop = 0
GenCall(count, length) ==
    /\ gen.pc # "loop"
    /\ gen' = [pc |-> "loop", count |-> count, length |-> length, ids |-> <<>>, loop |-> 0]
    /\ UNCHANGED <<shortIdLength, notified, links, caches, now, last, returned, options, caches_init,
                   stmt_getShortIdsExist, backend_init, initialised, callers>>

\* ids.add(generateRandomShortId(length)); loop++
GenDraw ==
    /\ gen.pc = "loop"
    /\ generating(gen)
    /\ \E id \in generateRandomShortId(gen.length) :
        gen' = [gen EXCEPT !.ids = Set_add(@, id), !.loop = @ + 1]
    /\ UNCHANGED <<shortIdLength, notified, links, caches, now, last, returned, options, caches_init,
                   stmt_getShortIdsExist, backend_init, initialised, callers>>

\* return Array.from(ids)
GenReturn ==
    /\ gen.pc = "loop"
    /\ ~generating(gen)
    /\ gen' = [gen EXCEPT !.pc = "returned"]
    /\ UNCHANGED <<shortIdLength, notified, links, caches, now, last, returned, options, caches_init,
                   stmt_getShortIdsExist, backend_init, initialised, callers>>

InitGen == Init /\ caches = <<>>

NextGen ==
    \/ \E count \in 0..BatchCount, length \in 0..GenLen : GenCall(count, length)
    \/ GenDraw
    \/ GenReturn

SpecGen == InitGen /\ [][NextGen]_vars

\* The strings of n characters of the 62-character alphabet 0-9a-zA-Z.
RECURSIVE Words(_)
Words(n) ==
    IF n = 0 THEN {""}
    ELSE {w \o ALLOWED_CHARS[i] : w \in Words(n - 1), i \in 1..62}

\* The strings of each length asked for under SpecGen.
AllowedWords == [n \in 0..GenLen |-> Words(n)]

\* C23. Candidate batch: generateUniqueShortIds(count, length) returns
\* pairwise distinct identifiers, at most count of them, each of exactly
\* length characters drawn from the 62-character alphabet 0-9a-zA-Z, and
\* exactly count of them unless the budget of count * 100 draws ran out.
C23_CandidateBatch ==
    gen.pc = "returned" =>
        /\ \A i, j \in 1..Len(gen.ids) : gen.ids[i] = gen.ids[j] => i = j
        /\ Len(gen.ids) <= gen.count
        /\ \A i \in 1..Len(gen.ids) :
            /\ Len(gen.ids[i]) = gen.length
            /\ gen.ids[i] \in AllowedWords[gen.length]
        /\ Len(gen.ids) = gen.count \/ gen.loop = gen.count * 100

\* The arrays the loop returns are those of generateUniqueShortIds, the
\* summary of the loop that createShortLink draws its batches from.
C23_LoopSummary ==
    gen.pc = "returned" => gen.ids \in generateUniqueShortIds(gen.count, gen.length)

\* A call returned a full batch after a draw that repeated an identifier.
C23_Witness ==
    /\ gen.pc = "returned"
    /\ gen.count = BatchCount
    /\ Len(gen.ids) = gen.count
    /\ gen.loop > gen.count
    /\ gen.length > 0

\* A call returned fewer than count identifiers, its draws spent.
C23_WitnessBudget ==
    /\ gen.pc = "returned"
    /\ gen.length > 0
    /\ Len(gen.ids) < gen.count
    /\ gen.loop = gen.count * DrawBudgetFactor

----------------------------------------------------------------------------
(* The draw budget of the generator.                                        *)

\* The identifiers the generator can draw at a length.
Namespace(length) == generateRandomShortId(length)

\* The loop under weak fairness of its iteration and of its return: a loop
\* that can take a step takes it.
SpecGenFair == SpecGen /\ WF_vars(GenDraw) /\ WF_vars(GenReturn)

\* C36. Draw budget: generateUniqueShortIds(count, length) makes at most
\* count * 100 random draws for every count and length, its loop cannot go
\* on once the budget is spent, and when the namespace at that length has
\* fewer than count identifiers it returns fewer than count, at most
\* 62^length and at most the size of the namespace.
C36_DrawBudget ==
    /\ gen.pc # "idle" => gen.loop <= gen.count * DrawBudgetFactor
    /\ (gen.pc = "loop" /\ gen.loop = gen.count * DrawBudgetFactor) => ~generating(gen)
    /\ (gen.pc = "returned" /\ Cardinality(Namespace(gen.length)) < gen.count)
        => /\ Len(gen.ids) < gen.count
           /\ Len(gen.ids) <= Cardinality(Namespace(gen.length))
           /\ Len(gen.ids) <= Cardinality(AllowedWords[gen.length])
           /\ gen.loop = gen.count * DrawBudgetFactor

\* Every call of the generator returns.
C36_Terminates == (gen.pc = "loop") ~> (gen.pc = "returned")

\* A call for two identifiers of length 0 returned the one identifier there
\* is, the empty string, after its 200 draws.
C36_Witness ==
    /\ gen.pc = "returned"
    /\ gen.count = BatchCount
    /\ Cardinality(Namespace(gen.length)) < gen.count
    /\ gen.ids = <<"">>
    /\ gen.loop = gen.count * DrawBudgetFactor


----------------------------------------------------------------------------
(* Concurrent creation: createShortLink calls of several callers on one     *)
(* manager, interleaved at their awaits.  The backend answers               *)
(* checkShortIdsExist with any of the batch's identifiers, as a backend     *)
(* that other clients write to, or the collisionBackend of the tests, does. *)

\* generateUniqueShortIds(50, shortIdLength), for every length in use.
stepLists == [len \in 1..StepLen |-> generateUniqueShortIds(BatchCount, len)]

\* The lists backend.checkShortIdsExist(listToTest) may resolve to.
answers(listToTest) ==
    {SelectSeq(listToTest, LAMBDA id : id \in S) : S \in SUBSET Range(listToTest)}

\* The candidates listToTest.find(id => !existed.includes(id)) may yield at
\* the length len: an identifier of the batch, or none.
candidates ==
    [len \in 1..StepLen |->
        UNION {{find(listToTest, existed) : existed \in answers(listToTest)} :
                    listToTest \in stepLists[len]}]

\* The head of the for loop for the caller r, the manager's length being
\* len: another batch is generated and checked, or the loop is left with
\* shortId empty and the call throws.
loopHead(r, len) ==
    IF r.i < MaxAttempts
    THEN {[r EXCEPT !.pc = "checkShortIdsExist", !.batchLength = len,
                    !.uniqueShortId = u, !.checks = @ + 1] :
                u \in candidates[len]}
    ELSE {[r EXCEPT !.pc = "threw"]}

\* shortIdLength = length of the batch + 1: the escalation from the length
\* the caller generated at.
escalate_fromBatch(len, batchLength) == batchLength + 1
\* ++shortIdLength
escalate(len, batchLength) == len + 1

\* await backend.createShortLink(shortId, targetUrl) rejects and the loop
\* is entered again: the fault is caught and the call retries.
onCreateFault_retry(r) == [r EXCEPT !.pc = "onShortIdLengthUpdated"]
\* await backend.createShortLink(shortId, targetUrl) rejects: nothing
\* catches the fault and the call ends with it.
onCreateFault(r) == [r EXCEPT !.pc = "threw"]

\* The target URLs of the concurrent callers.
StepUrls == {"https://poto.nz", "https://example.com/test"}

\* createShortLink(targetUrl) is called: let shortId = ""; i = 0; first batch.
StepCall(c, targetUrl) ==
    /\ callers[c].pc = "idle"
    /\ \E r \in loopHead([Idle EXCEPT !.targetUrl = targetUrl], shortIdLength) :
            callers' = [callers EXCEPT ![c] = r]
    /\ UNCHANGED <<shortIdLength, notified, links, caches, now, last, returned, options, caches_init,
                   stmt_getShortIdsExist, backend_init, initialised, gen>>

\* await backend.checkShortIdsExist(listToTest) resumes: without a free
\* candidate the length is escalated and the callback called; with one the
\* loop is left and backend.createShortLink(shortId, targetUrl) called.
StepChecked(c) ==
    LET r == callers[c]
    IN  /\ r.pc = "checkShortIdsExist"
        /\ IF Falsy(r.uniqueShortId)
           THEN /\ shortIdLength' = escalate(shortIdLength, r.batchLength)
                /\ notified' = Append(notified, shortIdLength')
                /\ callers' = [callers EXCEPT ![c] =
                        [r EXCEPT !.pc = "onShortIdLengthUpdated", !.escalations = @ + 1]]
                /\ UNCHANGED links
           ELSE /\ IF backend_createShortLinkThrows(links, r.uniqueShortId)
                   THEN /\ callers' = [callers EXCEPT ![c] =
                                onCreateFault([r EXCEPT !.shortId = r.uniqueShortId])]
                        /\ UNCHANGED links
                   ELSE /\ callers' = [callers EXCEPT ![c] =
                                [r EXCEPT !.pc = "createShortLink", !.shortId = r.uniqueShortId]]
                        /\ links' = backend_createShortLink(links, r.uniqueShortId,
                                                            r.targetUrl, now)
                /\ UNCHANGED <<shortIdLength, notified>>
        /\ UNCHANGED <<caches, now, last, returned, options, caches_init,
                       stmt_getShortIdsExist, backend_init, initialised, gen>>

\* The loop left without a candidate puts shortIdLength back to the length
\* the call began at before it throws.
StepNotified_restores(c) ==
    LET r == callers[c]
    IN  /\ r.pc = "onShortIdLengthUpdated"
        /\ \E n \in loopHead([r EXCEPT !.i = @ + 1], shortIdLength) :
                /\ callers' = [callers EXCEPT ![c] = n]
                /\ shortIdLength' = IF n.pc = "threw"
                                    THEN shortIdLength - n.escalations
                                    ELSE shortIdLength
        /\ UNCHANGED <<notified, links, caches, now, last, returned, options, caches_init,
                       stmt_getShortIdsExist, backend_init, initialised, gen>>

\* await onShortIdLengthUpdated(shortIdLength) resumes: i++, next pass.
StepNotified(c) ==
    LET r == callers[c]
    IN  /\ r.pc = "onShortIdLengthUpdated"
        /\ \E n \in loopHead([r EXCEPT !.i = @ + 1], shortIdLength) :
                callers' = [callers EXCEPT ![c] = n]
        /\ UNCHANGED <<shortIdLength, notified, links, caches, now, last, returned, options, caches_init,
                       stmt_getShortIdsExist, backend_init, initialised, gen>>

\* await backend.createShortLink(shortId, targetUrl) resumes: return shortId.
StepCreated(c) ==
    /\ callers[c].pc = "createShortLink"
    /\ callers' = [callers EXCEPT ![c].pc = "returned"]
    /\ UNCHANGED <<shortIdLength, notified, links, caches, now, last, returned, options, caches_init,
                   stmt_getShortIdsExist, backend_init, initialised, gen>>

InitSteps == Init /\ caches = <<>>

NextSteps ==
    \E c \in 1..Callers :
        \/ \E targetUrl \in StepUrls : StepCall(c, targetUrl)
        \/ StepChecked(c)
        \/ StepNotified(c)
        \/ StepCreated(c)

SpecSteps == InitSteps /\ [][NextSteps]_vars

\* C24. Bounded attempts and termination: every createShortLink call ends
\* after at most 3 batch rounds, with at most 3 calls to checkShortIdsExist
\* and at most 3 length escalations, whatever the backend answers: after its
\* third escalation a call generates no batch and ends.
C24_BoundedAttempts ==
    \A c \in 1..Callers :
        /\ callers[c].checks <= 3
        /\ callers[c].escalations <= 3
        /\ callers[c].escalations = 3 =>
                callers[c].pc \in {"onShortIdLengthUpdated", "threw"}

\* A call has ended after three escalations while another call returned.
C24_Witness ==
    \E c, d \in 1..Callers :
        /\ callers[c].pc = "threw" /\ callers[c].escalations = 3
        /\ callers[d].pc = "returned"


\* C30. Concurrent escalation: under any interleaving of concurrent
\* createShortLink calls on one manager, shortIdLength never decreases and
\* the values passed to onShortIdLengthUpdated are strictly increasing in
\* the order of the invocations, also when several callers see saturation
\* at the same length and escalate one after the other.
C30_ConcurrentEscalation ==
    [][/\ shortIdLength' >= shortIdLength
       /\ \A k \in 1..Len(notified') - 1 : notified'[k] < notified'[k + 1]
      ]_vars

\* Two callers generated their batches at the same length, saw them
\* saturated and both escalated.
C30_Witness ==
    \E c, d \in 1..Callers :
        /\ c # d
        /\ callers[c].escalations > 0 /\ callers[d].escalations > 0
        /\ callers[c].i = 0 /\ callers[d].i = 0
        /\ callers[c].batchLength = callers[d].batchLength
        /\ Len(notified) = 2


\* The calls that have called backend.createShortLink with a candidate.
Created(c) ==
    /\ callers[c].shortId # ""
    /\ callers[c].pc \in {"createShortLink", "returned", "threw"}

\* C31. Check-then-create race: with a fail-fast backend, when two
\* concurrent createShortLink calls select the same candidate between their
\* existence check and their create, exactly one call succeeds and returns
\* that shortId, the other fails with the backend fault without retrying,
\* and the stored targetUrl is the winner's.
C31_CheckThenCreateRace ==
    [][\A c \in 1..Callers :
        \* the call whose candidate was created meanwhile fails at its create
        /\ (/\ callers[c].pc = "checkShortIdsExist"
            /\ callers'[c] # callers[c]
            /\ ~Falsy(callers[c].uniqueShortId)
            /\ callers[c].uniqueShortId \in DOMAIN links)
           => /\ callers'[c].pc = "threw"
              /\ callers'[c].shortId = callers[c].uniqueShortId
              /\ callers'[c].checks = callers[c].checks
              /\ links' = links
        \* and stays failed
        /\ callers[c].pc = "threw" => callers'[c] = callers[c]
        \* of two calls that created the same candidate one has won
        /\ \A d \in 1..Callers :
            (c # d /\ Created(c)' /\ Created(d)'
             /\ callers'[c].shortId = callers'[d].shortId)
            => \E w \in {c, d}, l \in {c, d} :
                /\ w # l
                /\ callers'[w].pc \in {"createShortLink", "returned"}
                /\ callers'[l].pc = "threw"
                /\ links'[callers'[w].shortId].targetUrl = callers'[w].targetUrl
      ]_vars

\* Two calls chose the same candidate before either created it, with
\* different target URLs; one returned it and the other failed.
C31_Witness ==
    \E c, d \in 1..Callers :
        /\ callers[c].pc = "returned" /\ callers[d].pc = "threw"
        /\ callers[c].shortId # "" /\ callers[c].shortId = callers[d].shortId
        /\ callers[c].targetUrl # callers[d].targetUrl
        /\ callers[c].checks = 1 /\ callers[d].checks = 1
        /\ links[callers[c].shortId].targetUrl = callers[c].targetUrl


----------------------------------------------------------------------------
(* Exhaustion leaves the escalated length in place.                         *)

\* The call of the caller c was left without a candidate and threw.
Exhausted(c) == callers[c].pc = "threw" /\ exhausted(callers[c].shortId)

\* The escalations of all the callers so far.
RECURSIVE Escalations(_)
Escalations(n) ==
    IF n = 0 THEN 0 ELSE callers[n].escalations + Escalations(n - 1)

\* C37. No rollback on exhaustion: when createShortLink fails after all its
\* attempts were saturated starting at length L, shortIdLength remains L+3
\* and onShortIdLengthUpdated has been invoked with L+1, L+2 and L+3; the
\* step that throws changes neither, no later step lowers the length, and
\* the next createShortLink generates its first batch at the escalated
\* length.  With several callers the length is L plus the escalations of
\* all of them.
C37_NoRollback ==
    [][/\ shortIdLength' = InitialLength + Len(notified')
       /\ Len(notified') = Escalations(Callers)'
       /\ notified' = [k \in 1..Len(notified') |-> InitialLength + k]
       /\ shortIdLength' >= shortIdLength
       /\ \A c \in 1..Callers :
            /\ Exhausted(c)' =>
                /\ callers'[c].escalations = MaxAttempts
                /\ shortIdLength' >= callers'[c].batchLength + 1
                /\ (\A d \in 1..Callers \ {c} : callers'[d].escalations = 0)
                    => /\ shortIdLength' = InitialLength + MaxAttempts
                       /\ notified' = <<InitialLength + 1, InitialLength + 2,
                                        InitialLength + 3>>
            /\ (Exhausted(c)' /\ ~Exhausted(c))
                => shortIdLength' = shortIdLength /\ notified' = notified
            /\ (callers[c].pc = "idle" /\ callers'[c].pc # "idle")
                => callers'[c].batchLength = shortIdLength
      ]_vars

\* A call failed after three saturated batches begun at the initial length,
\* and the next call generated its first batch three lengths up.
C37_Witness ==
    \E c, d \in 1..Callers :
        /\ Exhausted(c)
        /\ callers[d].pc = "checkShortIdsExist"
        /\ callers[d].i = 0
        /\ callers[d].escalations = 0
        /\ callers[d].batchLength = InitialLength + MaxAttempts
        /\ shortIdLength = InitialLength + MaxAttempts
----------------------------------------------------------------------------
(* The earlier managers: class ShortLinksManager, whose createShortLink     *)
(* makes 10 attempts and calls backend.createShortLink after its loop       *)
(* without looking at shortId, and class LinksManager, which does the same  *)
(* on its D1 database and awaits onShortIdLengthChange before it assigns    *)
(* the length.  One caller, await by await: one call of a ShortLinksManager,*)
(* or calls of createShortLink and getTargetUrl of a LinksManager one after *)
(* the other.                                                               *)

\* The candidates of a batch at the length len, as candidates[len] has them
\* for the lengths under SpecSteps: any identifier of the length, or none.
candidatesOf(len) == generateRandomShortId(len) \cup {Null}

\* After the loop: await this.backend.createShortLink(shortId, targetUrl).
legacy_afterLoop(r) ==
    /\ IF backend_createShortLinkThrows(links, r.shortId)
       THEN /\ callers' = [callers EXCEPT ![1] = [r EXCEPT !.pc = "threw"]]
            /\ UNCHANGED links
       ELSE /\ callers' = [callers EXCEPT ![1] = [r EXCEPT !.pc = "createShortLink"]]
            /\ links' = backend_createShortLink(links, r.shortId, r.targetUrl, now)

\* The body of the loop up to await this.backend.checkShortIdsExist(listToTest).
legacy_generate(r) ==
    \E u \in candidatesOf(shortIdLength) :
        callers' = [callers EXCEPT ![1] =
            [r EXCEPT !.pc = "checkShortIdsExist", !.batchLength = shortIdLength,
                      !.uniqueShortId = u, !.checks = @ + 1]]

\* ShortLinksManager.createShortLink(targetUrl) is called: let shortId = "";
\* i = 0; first batch.
LegacyCall(targetUrl) ==
    /\ callers[1].pc = "idle"
    /\ legacy_generate([Idle EXCEPT !.op = "ShortLinksManager.createShortLink",
                                    !.targetUrl = targetUrl])
    /\ UNCHANGED <<shortIdLength, notified, links, caches, now, last, returned, options, caches_init,
                   stmt_getShortIdsExist, backend_init, initialised, gen>>

\* await this.backend.checkShortIdsExist(listToTest) resumes.
LegacyChecked ==
    LET r == callers[1]
    IN  /\ r.op = "ShortLinksManager.createShortLink"
        /\ r.pc = "checkShortIdsExist"
        /\ IF Falsy(r.uniqueShortId)
           THEN /\ shortIdLength' = escalate(shortIdLength, r.batchLength)
                /\ notified' = Append(notified, shortIdLength')
                /\ callers' = [callers EXCEPT ![1] =
                        [r EXCEPT !.pc = "onShortIdLengthUpdated", !.escalations = @ + 1]]
                /\ UNCHANGED links
           ELSE /\ legacy_afterLoop([r EXCEPT !.shortId = r.uniqueShortId])
                /\ UNCHANGED <<shortIdLength, notified>>
        /\ UNCHANGED <<caches, now, last, returned, options, caches_init,
                       stmt_getShortIdsExist, backend_init, initialised, gen>>

\* await this.onShortIdLengthUpdated(this.shortIdLength) resumes: i++, and
\* the next pass or, after the tenth, the code after the loop.
LegacyNotified ==
    LET r == [callers[1] EXCEPT !.i = @ + 1]
    IN  /\ callers[1].op = "ShortLinksManager.createShortLink"
        /\ callers[1].pc = "onShortIdLengthUpdated"
        /\ IF r.i < LegacyAttempts
           THEN legacy_generate(r) /\ UNCHANGED links
           ELSE legacy_afterLoop(r)
        /\ UNCHANGED <<shortIdLength, notified, caches, now, last, returned, options, caches_init,
                       stmt_getShortIdsExist, backend_init, initialised, gen>>

\* await this.backend.createShortLink(shortId, targetUrl) resumes: return shortId.
LegacyCreated ==
    /\ callers[1].op = "ShortLinksManager.createShortLink"
    /\ callers[1].pc = "createShortLink"
    /\ callers' = [callers EXCEPT ![1].pc = "returned"]
    /\ UNCHANGED <<shortIdLength, notified, links, caches, now, last, returned, options, caches_init,
                   stmt_getShortIdsExist, backend_init, initialised, gen>>

(* class LinksManager *)

\* The statement after the if (!this.stmt_getShortIdsExist) of
\* getShortIdsExist(shortIds) for a list of n ids: prepared once, with one
\* placeholder for each id of the call that prepares it.
links_prepareShortIdsExist(stmt, n) ==
    IF stmt.prepared THEN stmt ELSE [prepared |-> TRUE, placeholders |-> n]

\* bind(...shortIds) fails when the statement has another number of
\* placeholders than the n values bound.
links_getShortIdsExistThrows(stmt, n) ==
    links_prepareShortIdsExist(stmt, n).placeholders # n

\* The body of the loop up to the await of all() in getShortIdsExist, at the
\* length len: a batch of n ids is generated, the statement is prepared if
\* none is, and the ids are bound.  uniqueShortId is what find will give of
\* the answer: any id of the batch, or none.
links_generate(r, len) ==
    \E n \in 1..BatchCount, u \in candidatesOf(len) :
        /\ stmt_getShortIdsExist' = links_prepareShortIdsExist(stmt_getShortIdsExist, n)
        /\ callers' = [callers EXCEPT ![1] =
            IF links_getShortIdsExistThrows(stmt_getShortIdsExist, n)
            THEN [r EXCEPT !.pc = "threw", !.batchLength = len]
            ELSE [r EXCEPT !.pc = "getShortIdsExist", !.batchLength = len,
                           !.uniqueShortId = u, !.checks = @ + 1]]

\* After the loop: await this.stmt_createShortLinkMap.bind(shortId,
\* targetUrl).run().  The INSERT fails on the primary key, or run resolves
\* to a result that is a success, the row being stored, or none; awaited is
\* what the call will return: result.success ? shortId : null.
links_afterLoop(r) ==
    IF d1_createShortLinkThrows(links, r.shortId)
    THEN /\ callers' = [callers EXCEPT ![1] = [r EXCEPT !.pc = "threw"]]
         /\ UNCHANGED links
    ELSE \E success \in BOOLEAN :
            /\ callers' = [callers EXCEPT ![1] =
                    [r EXCEPT !.pc = "createShortLink",
                              !.awaited = IF success THEN r.shortId ELSE Null]]
            /\ links' = IF success
                        THEN d1_createShortLink(links, r.shortId, r.targetUrl, now)
                        ELSE links

\* The longest shortIdLength at which a call of LinksManager.createShortLink
\* is made, and the most rows of the table at which one is made.
LegacyLen == 2
LegacyLinks == 2

\* The manager has no call in progress: none was made yet, or the last one
\* of this manager has returned or thrown.
LinksIdle ==
    \/ callers[1].pc = "idle"
    \/ /\ callers[1].op \in {"LinksManager.createShortLink", "LinksManager.getTargetUrl"}
       /\ callers[1].pc \in {"returned", "threw"}

\* LinksManager.createShortLink(targetUrl) is called:
\* if (!this.initialised) await this.init(), init() setting initialised
\* before the await; on a manager that is initialised the call goes on to
\* its first batch at once.
LinksCall(targetUrl) ==
    LET r == [Idle EXCEPT !.op = "LinksManager.createShortLink", !.targetUrl = targetUrl]
    IN  /\ LinksIdle
        /\ shortIdLength <= LegacyLen
        /\ Cardinality(DOMAIN links) < LegacyLinks
        /\ IF ~initialised
           THEN /\ initialised' = TRUE
                /\ callers' = [callers EXCEPT ![1] = [r EXCEPT !.pc = "init"]]
                /\ UNCHANGED stmt_getShortIdsExist
           ELSE /\ links_generate(r, shortIdLength)
                /\ UNCHANGED initialised
        /\ UNCHANGED <<shortIdLength, notified, links, caches, now, last, returned, options,
                       caches_init, backend_init, gen>>

\* After the guard of getTargetUrl: the statement stmt_getLink, prepared if
\* none is, and await this.stmt_getLink.bind(shortId).first(); awaited is
\* what the call will return: result?.target_url ?? null.
links_first(r) ==
    callers' = [callers EXCEPT ![1] =
        [r EXCEPT !.pc = "getTargetUrl", !.awaited = d1_getTargetUrl(links, r.shortId)]]

\* LinksManager.getTargetUrl(shortId) is called:
\* if (!this.initialised) await this.init(), as in createShortLink.
LinksGetTargetUrl(shortId) ==
    LET r == [Idle EXCEPT !.op = "LinksManager.getTargetUrl", !.shortId = shortId]
    IN  /\ LinksIdle
        /\ IF ~initialised
           THEN /\ initialised' = TRUE
                /\ callers' = [callers EXCEPT ![1] = [r EXCEPT !.pc = "init"]]
           ELSE /\ links_first(r)
                /\ UNCHANGED initialised
        /\ UNCHANGED <<shortIdLength, notified, links, caches, now, last, returned, options,
                       caches_init, stmt_getShortIdsExist, backend_init, gen>>

\* await this.init() resumes in getTargetUrl.
LinksGetInited ==
    /\ callers[1].op = "LinksManager.getTargetUrl"
    /\ callers[1].pc = "init"
    /\ links_first(callers[1])
    /\ UNCHANGED <<shortIdLength, notified, links, caches, now, last, returned, options,
                   caches_init, stmt_getShortIdsExist, backend_init, initialised, gen>>

\* await ... .first() resumes: return result?.target_url ?? null.
LinksGot ==
    /\ callers[1].op = "LinksManager.getTargetUrl"
    /\ callers[1].pc = "getTargetUrl"
    /\ callers' = [callers EXCEPT ![1].pc = "returned"]
    /\ UNCHANGED <<shortIdLength, notified, links, caches, now, last, returned, options,
                   caches_init, stmt_getShortIdsExist, backend_init, initialised, gen>>

\* await this.init() resumes: let shortId = ""; i = 0; first batch.
LinksInited ==
    /\ callers[1].op = "LinksManager.createShortLink"
    /\ callers[1].pc = "init"
    /\ links_generate(callers[1], shortIdLength)
    /\ UNCHANGED <<shortIdLength, notified, links, caches, now, last, returned, options, caches_init,
                   backend_init, initialised, gen>>

\* await this.getShortIdsExist(listToTest) resumes: without a free candidate
\* await this.setShortIdLength(this.shortIdLength + 1), which calls
\* onShortIdLengthChange(length) and waits for it, the length being still
\* the old one; with one, break and the INSERT.
LinksChecked ==
    LET r == callers[1]
    IN  /\ r.op = "LinksManager.createShortLink"
        /\ r.pc = "getShortIdsExist"
        /\ IF Falsy(r.uniqueShortId)
           THEN /\ notified' = Append(notified, shortIdLength + 1)
                /\ callers' = [callers EXCEPT ![1] =
                        [r EXCEPT !.pc = "onShortIdLengthChange",
                                  !.newLength = shortIdLength + 1,
                                  !.escalations = @ + 1]]
                /\ UNCHANGED links
           ELSE /\ links_afterLoop([r EXCEPT !.shortId = r.uniqueShortId])
                /\ UNCHANGED notified
        /\ UNCHANGED <<shortIdLength, caches, now, last, returned, options, caches_init,
                       stmt_getShortIdsExist, backend_init, initialised, gen>>

\* await this.onShortIdLengthChange(length) resumes in setShortIdLength:
\* this.shortIdLength = length, and setShortIdLength returns.
LinksNotified ==
    /\ callers[1].op = "LinksManager.createShortLink"
    /\ callers[1].pc = "onShortIdLengthChange"
    /\ shortIdLength' = callers[1].newLength
    /\ callers' = [callers EXCEPT ![1].pc = "setShortIdLength"]
    /\ UNCHANGED <<notified, links, caches, now, last, returned, options, caches_init,
                   stmt_getShortIdsExist, backend_init, initialised, gen>>

\* await this.setShortIdLength(...) resumes: i++, and the next pass or,
\* after the tenth, the INSERT of shortId as it is.
LinksLengthSet ==
    LET r == [callers[1] EXCEPT !.i = @ + 1]
    IN  /\ callers[1].op = "LinksManager.createShortLink"
        /\ callers[1].pc = "setShortIdLength"
        /\ IF r.i < LegacyAttempts
           THEN links_generate(r, shortIdLength) /\ UNCHANGED links
           ELSE links_afterLoop(r) /\ UNCHANGED stmt_getShortIdsExist
        /\ UNCHANGED <<shortIdLength, notified, caches, now, last, returned, options, caches_init,
                       backend_init, initialised, gen>>

\* await ... .run() resumes: if (result.success) return shortId; return null.
LinksCreated ==
    /\ callers[1].op = "LinksManager.createShortLink"
    /\ callers[1].pc = "createShortLink"
    /\ callers' = [callers EXCEPT ![1].pc = "returned"]
    /\ UNCHANGED <<shortIdLength, notified, links, caches, now, last, returned, options, caches_init,
                   stmt_getShortIdsExist, backend_init, initialised, gen>>

NextLegacy ==
    \/ \E targetUrl \in StepUrls : LegacyCall(targetUrl)
    \/ LegacyChecked
    \/ LegacyNotified
    \/ LegacyCreated
    \/ \E targetUrl \in StepUrls : LinksCall(targetUrl)
    \/ LinksInited
    \/ LinksChecked
    \/ LinksNotified
    \/ LinksLengthSet
    \/ LinksCreated
    \/ \E shortId \in Ids : LinksGetTargetUrl(shortId)
    \/ LinksGetInited
    \/ LinksGot

SpecLegacy == InitSteps /\ [][NextLegacy]_vars

\* The closed form of the candidates agrees with the batches of the
\* generator and the answers of the backend, at the lengths of SpecSteps.
CandidatesClosedForm == \A len \in 1..StepLen : candidates[len] = candidatesOf(len)

\* C26. The id that createShortLink passes to backend.createShortLink is
\* always a non-empty member of the most recent batch that the most recent
\* checkShortIdsExist did not report as existing; the manager never persists
\* the empty string or an id reported as taken, also when every attempt was
\* saturated.
C26_PersistedId ==
    /\ \A c \in 1..Callers :
        (/\ callers[c].op # "LinksManager.getTargetUrl"
         /\ callers[c].pc \in {"createShortLink", "returned"}) =>
            /\ callers[c].shortId # ""
            /\ callers[c].shortId = callers[c].uniqueShortId
            /\ Len(callers[c].shortId) = callers[c].batchLength
    /\ "" \notin DOMAIN links

\* The same of the manager of createManager, call by call: the id passed to
\* backend.createShortLink is the free candidate of the last round.
C26_PersistedCandidate ==
    /\ (last.op = "createShortLink"
        /\ "backend.createShortLink" \in Range(CallNames(last.calls)))
       => LET r == last.rounds[Len(last.rounds)]
          IN  /\ ~last.threw
              /\ last.result # ""
              /\ last.result \in Range(r.listToTest) \ Range(r.existed)
              /\ last.result \in DOMAIN links
    /\ "" \notin DOMAIN links

====
